---- MODULE Spec2Model ----
(***************************************************************************)
(* Model of the dashboard controller of gh-actions-dash                    *)
(* (package tui, src/unnamed/part_003): the bubbletea model App with its   *)
(* Update loop, the commands it issues, the jobs cache and the debounced   *)
(* jobs load.                                                              *)
(*                                                                         *)
(* Actors.  The event loop (App.Update) handles one message at a time.     *)
(* Every tea.Cmd runs in a goroutine of its own and hands its message to   *)
(* the loop through an unbuffered channel, so pending messages of          *)
(* different commands are taken in any order.  A time.AfterFunc timer      *)
(* starts its callback in a goroutine of its own when it expires; the      *)
(* callback then waits for debounceMutex.  executeJobsLoad starts one more *)
(* goroutine for the network call.                                         *)
(*                                                                         *)
(* Time.  `now` counts clock units of one debounce delay (400 ms).  The    *)
(* cache TTL (10 min = 1500 units) is scaled down to CacheTTL units; only  *)
(* the order CacheTTL > DebounceDelay is kept.                             *)
(***************************************************************************)
EXTENDS Integers, Sequences, FiniteSets, Bags, TLC

\* ------------------------------------------------------------ bounds
MaxRuns == 2          \* run ids 1..MaxRuns
MaxWorkflows == 1     \* workflow ids 1..MaxWorkflows
MaxVer == 1           \* versions of one run's job list the server may return
MaxTime == 3          \* the clock stops at MaxTime
MaxCmds == 2          \* commands in flight plus messages not yet handled
MaxTimers == 2        \* debounce timers alive (armed, or fired and not yet run)
MaxFetches == 2       \* network calls of executeJobsLoad in flight
MaxLines == 3         \* lines of a log text
MaxViewHeight == 2    \* terminal heights go up to 6 + MaxViewHeight
MaxDrift == 2         \* logOffset is followed from -MaxDrift to MaxLines + MaxDrift
MaxShort == 1         \* terminal heights go down to 6 - MaxShort
MaxQuery == 2         \* runes of a search query
MaxJump == 2          \* digits of a jump buffer
MaxFileLines == 3     \* lines of a workflow file
MaxWidth == 2         \* terminal widths are 30, 60, .. up to 30 * MaxWidth
MaxTokens == 4        \* pieces of a line handed to the log processor
MaxParams == 2        \* codes of one SGR sequence
MaxTicks == 3         \* watch ticks scheduled and not yet delivered

\* ------------------------------------------------- program constants
DebounceDelay == 1    \* 400 * time.Millisecond, the clock unit
CacheTTL == 2         \* 10 * time.Minute, scaled (see above)
PerPage == 100        \* workflowsPerPage, allRunsPerPage
LogChrome == 6        \* viewHeight := a.height - 6

\* ------------------------------------------------------------ values
AllRunsView == "AllRunsView"
WorkflowListView == "WorkflowListView"
WorkflowRunsView == "WorkflowRunsView"
WorkflowRunLogsView == "WorkflowRunLogsView"
ViewStates == {AllRunsView, WorkflowListView, WorkflowRunsView, WorkflowRunLogsView}

RunIDs == 1..MaxRuns
WorkflowIDs == 1..MaxWorkflows
Nil == 0                                   \* nil pointer, zero id
NoErr == "nil"                             \* a.err == nil
Errors == {"network"}                      \* what the collaborator may report
NoJobs == [run |-> Nil, ver |-> 0]         \* nil job slice
JobsOf(r) == {[run |-> r, ver |-> v] : v \in 1..MaxVer}
EmptyLog == <<"">>                         \* "", as strings.Split(.., "\n") sees it
Heights == (LogChrome - MaxShort)..(LogChrome + MaxViewHeight)
Widths == {30 * k : k \in 1..MaxWidth}
NarrowWidth == 30 * 1                      \* the width of the scenarios that do not vary it
TerminalSizes == {<<w, LogChrome + w \div 30>> : w \in Widths}   \* <<columns, rows>>

Min(a, b) == IF a < b THEN a ELSE b
Max(a, b) == IF a > b THEN a ELSE b

\* ----------------------------------------------------------- state
VARIABLES
    viewState, loading, err,                       \* UI state
    workflows, workflowRuns, allRuns,              \* data
    currentWorkflow, currentRun, currentJobs,
    logs, logOffset, height,                       \* log viewport
    workflowsPage, workflowsTotal,                 \* pagination
    allRunsPage, allRunsTotal,
    workflowIdx, runsIdx, allRunsIdx,              \* list.Model.Index()
    jobsCache, debounceTimer, pendingRunID,        \* cache and debounce
    timers, fetches,                               \* timer callbacks, network calls
    cmds, msgs,                                    \* tea.Cmd running / msg pending
    now,                                           \* clock
    lastSet,                                       \* history: the last Set of each run id
    searchInputMode, searchInputBuffer,            \* log search
    searchActiveQuery, searchMatchIndices, searchMatchIndex,
    jumpInputMode, jumpInputBuffer,                \* line jump
    viewingWorkflowFile, workflowFileLoading,      \* workflow file overlay
    workflowFileContent, workflowFilePath, workflowFileOffset,
    width,                                         \* terminal width
    workflowListSize, runsListSize, allRunsListSize,   \* <<width, height>> of a list.Model
    previewSize,                                   \* <<width, height>> of the PreviewPanel
    ansiLine, ansiOut,                             \* logs.Processor: a line and what processLine made of it
    workflowsFrom, allRunsFrom,                    \* history: the page the items of a list were asked from
    watchMode, pendingTicks, hasRunning            \* watch mode, its ticks not yet delivered, a run of allRuns is running

uiVars == <<viewState, loading, err>>
dataVars == <<workflows, workflowRuns, allRuns, currentWorkflow, currentRun>>
logVars == <<logs, logOffset>>
pageVars == <<workflowsPage, workflowsTotal, allRunsPage, allRunsTotal>>
idxVars == <<workflowIdx, runsIdx, allRunsIdx>>
debVars == <<debounceTimer, pendingRunID, timers>>
searchVars == <<searchInputMode, searchInputBuffer, searchActiveQuery,
                searchMatchIndices, searchMatchIndex>>
jumpVars == <<jumpInputMode, jumpInputBuffer>>
fileVars == <<viewingWorkflowFile, workflowFileLoading,
              workflowFileContent, workflowFilePath, workflowFileOffset>>
modalVars == <<searchVars, jumpVars, fileVars>>
geomVars == <<width, workflowListSize, runsListSize, allRunsListSize, previewSize>>
procVars == <<ansiLine, ansiOut>>
fromVars == <<workflowsFrom, allRunsFrom>>
watchVars == <<watchMode, pendingTicks, hasRunning>>
extVars == <<procVars, fromVars, watchVars>>   \* state outside the fields of App of part_003

\* a.viewState == WorkflowRunLogsView; a key is taken by the overlay or an input mode
InLogs == viewState = WorkflowRunLogsView
Modal == viewingWorkflowFile \/ searchInputMode \/ jumpInputMode
vars == <<viewState, loading, err, workflows, workflowRuns, allRuns,
          currentWorkflow, currentRun, currentJobs, logs, logOffset, height,
          workflowsPage, workflowsTotal, allRunsPage, allRunsTotal,
          workflowIdx, runsIdx, allRunsIdx, jobsCache, debounceTimer,
          pendingRunID, timers, fetches, cmds, msgs, now, lastSet, modalVars, geomVars,
          extVars>>

\* ------------------------------------------------------- jobs cache
\* JobsCache.entries: every run id maps to an entry; ts < 0 is "not in the map".
NoEntry == [jobs |-> NoJobs, ts |-> -1]
NewJobsCache == [r \in RunIDs |-> NoEntry]

\* JobsCache.Get at clock t: <<jobs, found>>
CacheGet(c, runID, t) ==
    IF c[runID].ts < 0 THEN <<NoJobs, FALSE>>
    ELSE IF t - c[runID].ts > CacheTTL THEN <<NoJobs, FALSE>>
    ELSE <<c[runID].jobs, TRUE>>

\* JobsCache.Set at clock t
CacheSet(c, runID, jobs, t) ==
    [c EXCEPT ![runID] = [jobs |-> jobs, ts |-> t]]

\* A sweep that also drops the entries whose age equals the TTL.
CacheCleanupAtTTL(c, t) ==
    [r \in DOMAIN c |->
        IF c[r].ts >= 0 /\ t - c[r].ts >= CacheTTL THEN NoEntry ELSE c[r]]

\* JobsCache.Cleanup at clock t
CacheCleanup(c, t) ==
    [r \in DOMAIN c |->
        IF c[r].ts >= 0 /\ t - c[r].ts > CacheTTL THEN NoEntry ELSE c[r]]

\* ------------------------------------------- commands and messages
\* A tea.Cmd in flight: the closure's captured argument (0 when it has none) and
\* req, 0 until its collaborator call has started, then the page it asked for
\* (1 for a call without a page).
\* A workflow file load also holds the path its closure captured.
Cmd(kind, arg) == [kind |-> kind, arg |-> arg, req |-> 0, path |-> ""]

\* A tea.Msg produced by a command, one record shape for all message types.
\* run and asked are history, which the message itself does not hold: the run
\* whose logs a logsLoadedMsg carries, and the page the collaborator was asked
\* for the items of a paginated message.  running says of the runs of an
\* allRunsLoadedMsg that one of them is in_progress or queued; load is history
\* as well: the command that answered with this errorMsg was one of LoadKinds.
Msg(kind) == [kind |-> kind, items |-> <<>>, total |-> 0, page |-> 0,
              jobs |-> NoJobs, logs |-> EmptyLog, err |-> NoErr,
              content |-> EmptyLog, path |-> "", run |-> Nil, asked |-> 0,
              running |-> FALSE, load |-> FALSE]

\* The commands that are issued with loading set: loadAllRunsPaginated,
\* loadWorkflowsPaginated, loadWorkflowRuns and loadWorkflowRunLogs.
LoadKinds == {"allRuns", "workflows", "runs", "logs"}

InFlight == BagCardinality(cmds) + BagCardinality(msgs)
Issue(c) == cmds (+) SetToBag({c})

\* ------------------------------------------------------------ Init
\* NewApp, then App.Init: the first load is issued.
NewAppWith(first) ==
    /\ viewState = AllRunsView
    /\ loading = TRUE
    /\ err = NoErr
    /\ workflows = <<>> /\ workflowRuns = <<>> /\ allRuns = <<>>
    /\ currentWorkflow = Nil /\ currentRun = Nil /\ currentJobs = NoJobs
    /\ logs = EmptyLog /\ logOffset = 0 /\ height = 0
    /\ workflowsPage = 1 /\ workflowsTotal = 0
    /\ allRunsPage = 1 /\ allRunsTotal = 0
    /\ workflowIdx = 0 /\ runsIdx = 0 /\ allRunsIdx = 0
    /\ jobsCache = NewJobsCache
    /\ debounceTimer = Nil /\ pendingRunID = Nil
    /\ timers = {} /\ fetches = EmptyBag
    /\ cmds = SetToBag({first}) /\ msgs = EmptyBag
    /\ now = 0
    /\ lastSet = [r \in RunIDs |-> NoEntry]
    /\ searchInputMode = FALSE /\ searchInputBuffer = <<>>
    /\ searchActiveQuery = <<>> /\ searchMatchIndices = <<>> /\ searchMatchIndex = 0
    /\ jumpInputMode = FALSE /\ jumpInputBuffer = <<>>
    /\ viewingWorkflowFile = FALSE /\ workflowFileLoading = FALSE
    /\ workflowFileContent = EmptyLog /\ workflowFilePath = "" /\ workflowFileOffset = 0
    /\ width = 0
    /\ workflowListSize = <<0, 0>> /\ runsListSize = <<0, 0>> /\ allRunsListSize = <<0, 0>>
    /\ previewSize = <<0, 0>>
    /\ workflowsFrom = 0 /\ allRunsFrom = 0
    /\ watchMode = FALSE /\ pendingTicks = 0 /\ hasRunning = FALSE

\* part_003: the first load is the paginated all-runs load.
NewApp == NewAppWith(Cmd("allRuns", 0))

\* The controller starts; the log processor has seen no line.
Init ==
    /\ NewApp
    /\ ansiLine = <<>> /\ ansiOut = <<>>

\* --------------------------------------------------- the collaborator
\* What github.Client may answer.  A list is empty or holds every id of the
\* range; the total of a non-empty list says that a further page exists.
RECURSIVE Upto(_)
Upto(n) == IF n = 0 THEN <<>> ELSE Append(Upto(n - 1), n)
RunLists == {<<>>, Upto(MaxRuns)}
WorkflowLists == {<<>>, Upto(MaxWorkflows)}
Totals(items) == IF Len(items) = 0 THEN {0} ELSE {PerPage + 1}
RECURSIVE LogText(_)
LogText(n) ==
    IF n = 0 THEN <<>>
    ELSE Append(LogText(n - 1), IF n % 2 = 1 THEN "step" ELSE "Error: x")
LogTexts == {LogText(n) : n \in 1..MaxLines}
\* GetWorkflowFileAtRef answers with the file; when it fails the command
\* answers with one line of failure text.
RECURSIVE FileText(_)
FileText(n) ==
    IF n = 0 THEN <<>>
    ELSE Append(FileText(n - 1), IF n = 1 THEN "on: push" ELSE "  run: make")
FileTexts == {FileText(n) : n \in 1..MaxFileLines}
FetchFailedText == <<"Failed to fetch workflow file: network">>

\* ------------------------------------------------------- commands
\* The collaborator call of a paginated load starts: the closure reads the
\* page field of App when it runs, not when the command was created.
\* loadWorkflowRunJobs first asks the cache and calls only on a miss.
CmdStart(c) ==
    /\ BagIn(c, cmds) /\ c.req = 0
    /\ c.kind \in {"allRuns", "workflows", "jobs"}
    /\ CASE c.kind = "allRuns" ->
              /\ cmds' = (cmds (-) SetToBag({c})) (+) SetToBag({[c EXCEPT !.req = allRunsPage]})
              /\ msgs' = msgs
         [] c.kind = "workflows" ->
              /\ cmds' = (cmds (-) SetToBag({c})) (+) SetToBag({[c EXCEPT !.req = workflowsPage]})
              /\ msgs' = msgs
         [] c.kind = "jobs" ->
              LET g == CacheGet(jobsCache, c.arg, now) IN
              IF g[2]
              THEN /\ cmds' = cmds (-) SetToBag({c})
                   /\ msgs' = msgs (+) SetToBag({[Msg("jobsLoadedMsg") EXCEPT !.jobs = g[1]]})
              ELSE /\ cmds' = (cmds (-) SetToBag({c})) (+) SetToBag({[c EXCEPT !.req = 1]})
                   /\ msgs' = msgs
    /\ UNCHANGED <<uiVars, dataVars, currentJobs, logVars, height, geomVars, extVars, modalVars, pageVars, idxVars,
                   jobsCache, lastSet, debVars, fetches, now>>

\* The collaborator call fails: every command answers with errorMsg.
CmdFail(c, e) ==
    /\ BagIn(c, cmds)
    /\ c.req > 0 \/ c.kind \in {"runs", "logs"}
    /\ cmds' = cmds (-) SetToBag({c})
    /\ msgs' = msgs (+) SetToBag({[Msg("errorMsg") EXCEPT
            !.err = e, !.load = c.kind \in LoadKinds]})
    /\ UNCHANGED <<uiVars, dataVars, currentJobs, logVars, height, geomVars, extVars, modalVars, pageVars, idxVars,
                   jobsCache, lastSet, debVars, fetches, now>>

\* The collaborator call returns: the message is built.  A paginated load
\* reads the page field of App once more for the message.
CmdDone(c) ==
    /\ BagIn(c, cmds)
    /\ c.req > 0 \/ c.kind \in {"runs", "logs", "file"}
    /\ cmds' = cmds (-) SetToBag({c})
    /\ CASE c.kind = "allRuns" ->
              /\ \E rs \in RunLists : \E t \in Totals(rs) :
                    msgs' = msgs (+) SetToBag({[Msg("allRunsPaginatedLoadedMsg") EXCEPT
                        !.items = rs, !.total = t, !.page = allRunsPage, !.asked = c.req]})
              /\ UNCHANGED <<jobsCache, lastSet>>
         [] c.kind = "workflows" ->
              /\ \E ws \in WorkflowLists : \E t \in Totals(ws) :
                    msgs' = msgs (+) SetToBag({[Msg("workflowsPaginatedLoadedMsg") EXCEPT
                        !.items = ws, !.total = t, !.page = workflowsPage, !.asked = c.req]})
              /\ UNCHANGED <<jobsCache, lastSet>>
         [] c.kind = "runs" ->
              /\ \E rs \in RunLists :
                    msgs' = msgs (+) SetToBag({[Msg("workflowRunsLoadedMsg") EXCEPT
                        !.items = rs]})
              /\ UNCHANGED <<jobsCache, lastSet>>
         [] c.kind = "logs" ->
              /\ \E l \in LogTexts :
                    msgs' = msgs (+) SetToBag({[Msg("logsLoadedMsg") EXCEPT
                        !.logs = l, !.run = c.arg]})
              /\ UNCHANGED <<jobsCache, lastSet>>
         [] c.kind = "jobs" ->
              \E j \in JobsOf(c.arg) :
                 /\ jobsCache' = CacheSet(jobsCache, c.arg, j, now)
                 /\ lastSet' = [lastSet EXCEPT ![c.arg] = [jobs |-> j, ts |-> now]]
                 /\ msgs' = msgs (+) SetToBag({[Msg("jobsLoadedMsg") EXCEPT
                        !.jobs = j]})
         [] c.kind = "file" ->    \* the file or, on failure, the failure text
              /\ \E text \in FileTexts \cup {FetchFailedText} :
                    msgs' = msgs (+) SetToBag({[Msg("workflowFileLoadedMsg") EXCEPT
                        !.content = text, !.path = c.path]})
              /\ UNCHANGED <<jobsCache, lastSet>>
    /\ UNCHANGED <<uiVars, dataVars, currentJobs, logVars, height, geomVars, extVars, modalVars, pageVars, idxVars,
                   debVars, fetches, now>>

\* ------------------------------------------ Update: completion events
\* App.Update, one case per message type.  SetItems leaves the list's index
\* where it was.
\* The two paginated cases take the value the history of the list's page gets:
\* the page asked for where the history is kept, its old value where not.
AllRunsPaginatedLoaded(m, from) ==
    /\ BagIn(m, msgs) /\ m.kind = "allRunsPaginatedLoadedMsg"
    /\ msgs' = msgs (-) SetToBag({m})
    /\ allRuns' = m.items
    /\ allRunsTotal' = m.total
    /\ allRunsPage' = m.page
    /\ allRunsFrom' = from
    /\ loading' = FALSE
    /\ cmds' = IF Len(m.items) > 0 THEN Issue(Cmd("jobs", m.items[1])) ELSE cmds
    /\ UNCHANGED <<viewState, err, workflows, workflowRuns, currentWorkflow, currentRun,
                   currentJobs, logVars, height, geomVars, procVars, workflowsFrom, watchVars, modalVars,
                   workflowsPage, workflowsTotal, idxVars,
                   jobsCache, lastSet, debVars, fetches, now>>

WorkflowsPaginatedLoaded(m, from) ==
    /\ BagIn(m, msgs) /\ m.kind = "workflowsPaginatedLoadedMsg"
    /\ msgs' = msgs (-) SetToBag({m})
    /\ workflows' = m.items
    /\ workflowsTotal' = m.total
    /\ workflowsPage' = m.page
    /\ workflowsFrom' = from
    /\ loading' = FALSE
    /\ UNCHANGED <<viewState, err, workflowRuns, allRuns, currentWorkflow, currentRun,
                   currentJobs, logVars, height, geomVars, procVars, allRunsFrom, watchVars, modalVars,
                   allRunsPage, allRunsTotal, idxVars,
                   jobsCache, lastSet, debVars, fetches, cmds, now>>

OnAllRunsPaginatedLoaded(m) == AllRunsPaginatedLoaded(m, allRunsFrom)
OnWorkflowsPaginatedLoaded(m) == WorkflowsPaginatedLoaded(m, workflowsFrom)

\* A runs-loaded that appends the payload to the runs it has.
OnWorkflowRunsLoadedMerges(m) ==
    /\ BagIn(m, msgs) /\ m.kind = "workflowRunsLoadedMsg"
    /\ msgs' = msgs (-) SetToBag({m})
    /\ workflowRuns' = workflowRuns \o m.items
    /\ loading' = FALSE
    /\ cmds' = IF Len(m.items) > 0 THEN Issue(Cmd("jobs", m.items[1])) ELSE cmds
    /\ UNCHANGED <<viewState, err, workflows, allRuns, currentWorkflow, currentRun,
                   currentJobs, logVars, height, geomVars, extVars, modalVars, pageVars, idxVars,
                   jobsCache, lastSet, debVars, fetches, now>>

OnWorkflowRunsLoaded(m) ==
    /\ BagIn(m, msgs) /\ m.kind = "workflowRunsLoadedMsg"
    /\ msgs' = msgs (-) SetToBag({m})
    /\ workflowRuns' = m.items
    /\ loading' = FALSE
    /\ cmds' = IF Len(m.items) > 0 THEN Issue(Cmd("jobs", m.items[1])) ELSE cmds
    /\ UNCHANGED <<viewState, err, workflows, allRuns, currentWorkflow, currentRun,
                   currentJobs, logVars, height, geomVars, extVars, modalVars, pageVars, idxVars,
                   jobsCache, lastSet, debVars, fetches, now>>

\* An error event that also drops the log text.
OnErrorMsgDropsLog(m) ==
    /\ BagIn(m, msgs) /\ m.kind = "errorMsg"
    /\ msgs' = msgs (-) SetToBag({m})
    /\ err' = m.err
    /\ loading' = FALSE
    /\ logs' = EmptyLog
    /\ UNCHANGED <<viewState, dataVars, currentJobs, logOffset, height, geomVars, extVars, modalVars, pageVars, idxVars,
                   jobsCache, lastSet, debVars, fetches, cmds, now>>

\* An error event that leaves loading as it was.
OnErrorMsgKeepsLoading(m) ==
    /\ BagIn(m, msgs) /\ m.kind = "errorMsg"
    /\ msgs' = msgs (-) SetToBag({m})
    /\ err' = m.err
    /\ UNCHANGED <<viewState, loading, dataVars, currentJobs, logVars, height, geomVars, extVars, modalVars, pageVars, idxVars,
                   jobsCache, lastSet, debVars, fetches, cmds, now>>

OnErrorMsg(m) ==
    /\ BagIn(m, msgs) /\ m.kind = "errorMsg"
    /\ msgs' = msgs (-) SetToBag({m})
    /\ err' = m.err
    /\ loading' = FALSE
    /\ UNCHANGED <<viewState, dataVars, currentJobs, logVars, height, geomVars, extVars, modalVars, pageVars, idxVars,
                   jobsCache, lastSet, debVars, fetches, cmds, now>>

OnLogsLoaded(m) ==
    /\ BagIn(m, msgs) /\ m.kind = "logsLoadedMsg"
    /\ msgs' = msgs (-) SetToBag({m})
    /\ logs' = m.logs
    /\ loading' = FALSE
    /\ UNCHANGED <<viewState, err, dataVars, currentJobs, logOffset, height, geomVars, extVars, modalVars, pageVars,
                   idxVars, jobsCache, lastSet, debVars, fetches, cmds, now>>

OnJobsLoaded(m) ==
    /\ BagIn(m, msgs) /\ m.kind = "jobsLoadedMsg"
    /\ msgs' = msgs (-) SetToBag({m})
    /\ currentJobs' = m.jobs
    /\ UNCHANGED <<uiVars, dataVars, logVars, height, geomVars, extVars, modalVars, pageVars, idxVars,
                   jobsCache, lastSet, debVars, fetches, cmds, now>>

OnWorkflowFileLoaded(m) ==
    /\ BagIn(m, msgs) /\ m.kind = "workflowFileLoadedMsg"
    /\ msgs' = msgs (-) SetToBag({m})
    /\ workflowFileLoading' = FALSE
    /\ workflowFileContent' = m.content
    /\ workflowFilePath' = m.path
    /\ viewingWorkflowFile' = TRUE
    /\ UNCHANGED <<workflowFileOffset, uiVars, dataVars, currentJobs, logVars, height, geomVars, extVars, searchVars, jumpVars,
                   pageVars, idxVars, jobsCache, lastSet, debVars, fetches, cmds, now>>

\* updateListSizes: the sizes it computes for the lists and for the preview
\* panel in view v on a terminal of w columns and h rows.
ListSize(v, w, h) ==
    CASE v \in {WorkflowRunsView, AllRunsView} -> <<(w * 3) \div 5 - 2, h - 6>>
      [] v = WorkflowListView -> <<Max(20, (w * 3) \div 5 - 1), Max(5, h - 4)>>
      [] OTHER -> <<w - 4, h - 6>>
PreviewSize(v, w, h) ==
    CASE v \in {WorkflowRunsView, AllRunsView} -> <<(w * 2) \div 5 - 1, h - 4>>
      [] v = WorkflowListView -> <<Max(15, (w * 2) \div 5 - 1), Max(5, h - 4)>>

\* updateListSizes for a terminal of w columns and h rows: each view sets
\* the panels of its case and leaves the others as they are.
UpdateListSizes(w, h) ==
    CASE viewState \in {WorkflowRunsView, AllRunsView} ->
            /\ runsListSize' = ListSize(viewState, w, h)
            /\ allRunsListSize' = ListSize(viewState, w, h)
            /\ previewSize' = PreviewSize(viewState, w, h)
            /\ UNCHANGED workflowListSize
      [] viewState = WorkflowListView ->
            /\ workflowListSize' = ListSize(viewState, w, h)
            /\ previewSize' = PreviewSize(viewState, w, h)
            /\ UNCHANGED <<runsListSize, allRunsListSize>>
      [] OTHER ->
            /\ workflowListSize' = ListSize(viewState, w, h)
            /\ runsListSize' = ListSize(viewState, w, h)
            /\ allRunsListSize' = ListSize(viewState, w, h)
            /\ UNCHANGED previewSize

\* tea.WindowSizeMsg
Resize(w, h) ==
    /\ width' = w
    /\ height' = h
    /\ UpdateListSizes(w, h)
    /\ UNCHANGED <<extVars, modalVars, uiVars, dataVars, currentJobs, logVars, pageVars, idxVars,
                   jobsCache, lastSet, debVars, fetches, cmds, msgs, now>>

\* ------------------------------------------------- debounced jobs load
\* A timer of time.AfterFunc: armed until it expires or is stopped; fired once
\* the runtime has started its callback, which has not yet taken debounceMutex.
Timer(id, runID, deadline) == [id |-> id, run |-> runID, deadline |-> deadline, st |-> "armed"]

\* A Stop that stops nothing.
StopTimerNoOp(ts, id) == ts

\* Timer.Stop: an armed timer is removed, a fired one is not touched.
StopTimer(ts, id) == {t \in ts : ~(t.id = id /\ t.st = "armed")}

FreeTimerId(ts) == CHOOSE i \in 1..MaxTimers :
    /\ \A t \in ts : t.id # i
    /\ \A k \in 1..(i - 1) : \E t \in ts : t.id = k

\* Can scheduleJobsLoad(runID) run within the model's bound on timers?
CanSchedule(runID) ==
    \/ CacheGet(jobsCache, runID, now)[2]
    \/ Cardinality(StopTimer(timers, debounceTimer)) < MaxTimers

\* scheduleJobsLoad, called by the event loop under debounceMutex
ScheduleJobsLoad(runID) ==
    LET g == CacheGet(jobsCache, runID, now)
        kept == StopTimer(timers, debounceTimer)
        id == FreeTimerId(kept)
    IN IF g[2]
       THEN /\ currentJobs' = g[1]
            /\ UNCHANGED debVars
       ELSE /\ timers' = kept \cup {Timer(id, runID, now + DebounceDelay)}
            /\ pendingRunID' = runID
            /\ debounceTimer' = id
            /\ UNCHANGED currentJobs

\* The timer expires: the runtime starts the callback in its own goroutine.
TimerFire(t) ==
    /\ t \in timers /\ t.st = "armed" /\ now >= t.deadline
    /\ timers' = (timers \ {t}) \cup {[t EXCEPT !.st = "fired"]}
    /\ UNCHANGED <<uiVars, dataVars, currentJobs, logVars, height, geomVars, extVars, modalVars, pageVars, idxVars,
                   jobsCache, lastSet, debounceTimer, pendingRunID, fetches, cmds, msgs, now>>

\* A network call of executeJobsLoad in flight; latest says whether the timer
\* that issued it was the one scheduled last (a.debounceTimer) at that moment.
Fetch(runID, latest) == [run |-> runID, latest |-> latest]

\* A callback that does not look at pendingRunID.
ExecuteJobsLoadNoRecheck(t) ==
    /\ t \in timers /\ t.st = "fired"
    /\ timers' = timers \ {t}
    /\ LET g == CacheGet(jobsCache, t.run, now) IN
       IF g[2]
       THEN currentJobs' = g[1] /\ UNCHANGED fetches
       ELSE /\ BagCardinality(fetches) < MaxFetches
            /\ fetches' = fetches (+) SetToBag({Fetch(t.run, t.id = debounceTimer)})
            /\ UNCHANGED currentJobs
    /\ UNCHANGED <<uiVars, dataVars, logVars, height, geomVars, extVars, modalVars, pageVars, idxVars,
                   jobsCache, lastSet, debounceTimer, pendingRunID, cmds, msgs, now>>

\* executeJobsLoad(runID), the timer's callback, under debounceMutex
ExecuteJobsLoad(t) ==
    /\ t \in timers /\ t.st = "fired"
    /\ timers' = timers \ {t}
    /\ LET g == CacheGet(jobsCache, t.run, now) IN
       IF pendingRunID # t.run
       THEN UNCHANGED <<currentJobs, fetches>>
       ELSE IF g[2]
       THEN currentJobs' = g[1] /\ UNCHANGED fetches
       ELSE /\ BagCardinality(fetches) < MaxFetches
            /\ fetches' = fetches (+) SetToBag({Fetch(t.run, t.id = debounceTimer)})
            /\ UNCHANGED currentJobs
    /\ UNCHANGED <<uiVars, dataVars, logVars, height, geomVars, extVars, modalVars, pageVars, idxVars,
                   jobsCache, lastSet, debounceTimer, pendingRunID, cmds, msgs, now>>

\* The goroutine of executeJobsLoad: GetWorkflowRunJobs returned without error.
JobsFetchDone(f) ==
    /\ BagIn(f, fetches)
    /\ fetches' = fetches (-) SetToBag({f})
    /\ \E j \in JobsOf(f.run) :
         /\ jobsCache' = CacheSet(jobsCache, f.run, j, now)
         /\ lastSet' = [lastSet EXCEPT ![f.run] = [jobs |-> j, ts |-> now]]
         /\ currentJobs' = j
    /\ UNCHANGED <<uiVars, dataVars, logVars, height, geomVars, extVars, modalVars, pageVars, idxVars,
                   debVars, cmds, msgs, now>>

\* The goroutine of executeJobsLoad: GetWorkflowRunJobs failed; nothing is done.
JobsFetchFail(f) ==
    /\ BagIn(f, fetches)
    /\ fetches' = fetches (-) SetToBag({f})
    /\ UNCHANGED <<uiVars, dataVars, currentJobs, logVars, height, geomVars, extVars, modalVars, pageVars, idxVars,
                   jobsCache, lastSet, debVars, cmds, msgs, now>>

\* A sweep that empties the cache.
CleanupDropsAll ==
    /\ jobsCache' = NewJobsCache
    /\ UNCHANGED <<lastSet, uiVars, dataVars, currentJobs, logVars, height, geomVars, extVars, modalVars, pageVars, idxVars,
                   debVars, fetches, cmds, msgs, now>>

\* The goroutine started by App.Init sweeps the cache on a ticker.
Cleanup ==
    /\ jobsCache' = CacheCleanup(jobsCache, now)
    /\ UNCHANGED <<lastSet, uiVars, dataVars, currentJobs, logVars, height, geomVars, extVars, modalVars, pageVars, idxVars,
                   debVars, fetches, cmds, msgs, now>>

Tick ==
    /\ now < MaxTime
    /\ now' = now + 1
    /\ UNCHANGED <<uiVars, dataVars, currentJobs, logVars, height, geomVars, extVars, modalVars, pageVars, idxVars,
                   jobsCache, lastSet, debVars, fetches, cmds, msgs>>

\* ------------------------------------------------------ log viewport
Lines(text) == text                         \* strings.Split(a.logs, "\n")
ViewHeight(h) == h - LogChrome              \* viewHeight := a.height - 6
MaxOffset(text, h) ==                       \* maxOffset, clamped at 0
    IF Len(Lines(text)) - ViewHeight(h) < 0 THEN 0 ELSE Len(Lines(text)) - ViewHeight(h)

ScrollUp(off) == IF off > 0 THEN off - 1 ELSE off
ScrollDown(off, maxOffset) == IF off < maxOffset THEN off + 1 ELSE off
ScrollPageUp(off, viewHeight) == IF off - viewHeight < 0 THEN 0 ELSE off - viewHeight
\* A page down that forgets the clamp to maxOffset.
ScrollPageDownUnclamped(off, viewHeight, maxOffset) == off + viewHeight

ScrollPageDown(off, viewHeight, maxOffset) ==
    IF off + viewHeight > maxOffset THEN maxOffset ELSE off + viewHeight

NavKeys == {"up", "down", "pgup", "pgdown", "home", "end"}
OffsetRange == (0 - MaxDrift)..(MaxLines + MaxDrift)

\* handleLogNavigation: the new logOffset for key k
LogNavigation(k, text, off, h) ==
    IF text = EmptyLog THEN off
    ELSE CASE k = "up" -> ScrollUp(off)
           [] k = "down" -> ScrollDown(off, MaxOffset(text, h))
           [] k = "pgup" -> ScrollPageUp(off, ViewHeight(h))
           [] k = "pgdown" -> ScrollPageDown(off, ViewHeight(h), MaxOffset(text, h))
           [] k = "home" -> 0
           [] k = "end" -> MaxOffset(text, h)
           [] OTHER -> off

\* The visible window of renderWorkflowRunLogsView: <<start, end>> of
\* lines[start:end].
RenderWindow(text, off, h) ==
    LET n == Len(Lines(text))
        end0 == off + ViewHeight(h)
        end == IF end0 > n THEN n ELSE end0
        start == IF off > n THEN n ELSE off
    IN <<start, end>>

\* Does App.View reach the slice lines[start:end] of the Logs view?
RendersLogLines ==
    /\ height # 0
    /\ err = NoErr
    /\ ~loading
    /\ viewState = WorkflowRunLogsView
    /\ currentRun # Nil
    /\ logs # EmptyLog

\* ------------------------------------------------------------- lists
\* list.Model.Update for a cursor key: the new Index() of a list of n items
\* shown on one page.
ListMove(k, idx, n) ==
    CASE k = "up" -> IF idx > 0 THEN idx - 1 ELSE 0
      [] k = "down" -> IF idx + 1 < n THEN idx + 1 ELSE IF n > 0 THEN n - 1 ELSE 0
      [] k = "home" -> 0
      [] k = "end" -> IF n > 0 THEN n - 1 ELSE 0
      [] OTHER -> idx

\* updateLists in a runs view: the cursor moves and a changed selection
\* schedules the debounced jobs load.
MoveInRuns(k, idx, runs) ==
    LET new == ListMove(k, idx, Len(runs)) IN
    IF new # idx /\ Len(runs) > 0 /\ new < Len(runs)
    THEN CanSchedule(runs[new + 1]) /\ ScheduleJobsLoad(runs[new + 1])
    ELSE UNCHANGED <<currentJobs, debVars>>

UpdateLists(k) ==
    /\ CASE viewState = AllRunsView ->
              /\ allRunsIdx' = ListMove(k, allRunsIdx, Len(allRuns))
              /\ MoveInRuns(k, allRunsIdx, allRuns)
              /\ UNCHANGED <<workflowIdx, runsIdx>>
         [] viewState = WorkflowListView ->
              /\ workflowIdx' = ListMove(k, workflowIdx, Len(workflows))
              /\ UNCHANGED <<allRunsIdx, runsIdx, currentJobs, debVars>>
         [] viewState = WorkflowRunsView ->
              /\ runsIdx' = ListMove(k, runsIdx, Len(workflowRuns))
              /\ MoveInRuns(k, runsIdx, workflowRuns)
              /\ UNCHANGED <<workflowIdx, allRunsIdx>>
         [] OTHER -> UNCHANGED <<idxVars, currentJobs, debVars>>
    /\ UNCHANGED <<uiVars, dataVars, logVars, height, geomVars, extVars, modalVars, pageVars,
                   jobsCache, lastSet, fetches, cmds, msgs, now>>

\* ---------------------------------------------------- Update: keys
\* handleKeyMsg for a cursor or scroll key
KeyNav(k) ==
    /\ k \in NavKeys
    /\ ~Modal
    /\ IF viewState = WorkflowRunLogsView
       THEN /\ LogNavigation(k, logs, logOffset, height) \in OffsetRange
            /\ logOffset' = LogNavigation(k, logs, logOffset, height)
            /\ UNCHANGED <<uiVars, dataVars, currentJobs, logs, height, geomVars, extVars, modalVars, pageVars, idxVars,
                           jobsCache, lastSet, debVars, fetches, cmds, msgs, now>>
       ELSE UpdateLists(k)

\* The item under the cursor (list.SelectedItem), Nil when the index is out of range
Selected(items, idx) == IF idx < Len(items) THEN items[idx + 1] ELSE Nil

\* A confirm that opens the Logs view of a run of a workflow over the old log.
HandleEnterKeepsLog ==
    CASE viewState = AllRunsView /\ Selected(allRuns, allRunsIdx) # Nil ->
            /\ InFlight < MaxCmds
            /\ currentRun' = Selected(allRuns, allRunsIdx)
            /\ viewState' = WorkflowRunLogsView
            /\ loading' = TRUE
            /\ logOffset' = 0
            /\ logs' = EmptyLog
            /\ cmds' = Issue(Cmd("logs", Selected(allRuns, allRunsIdx)))
            /\ UNCHANGED <<err, workflows, workflowRuns, allRuns, currentWorkflow>>
      [] viewState = WorkflowListView /\ Selected(workflows, workflowIdx) # Nil ->
            /\ InFlight < MaxCmds
            /\ currentWorkflow' = Selected(workflows, workflowIdx)
            /\ viewState' = WorkflowRunsView
            /\ loading' = TRUE
            /\ cmds' = Issue(Cmd("runs", Selected(workflows, workflowIdx)))
            /\ UNCHANGED <<err, workflows, workflowRuns, allRuns, currentRun, logVars>>
      [] viewState = WorkflowRunsView /\ Selected(workflowRuns, runsIdx) # Nil ->
            /\ InFlight < MaxCmds
            /\ currentRun' = Selected(workflowRuns, runsIdx)
            /\ viewState' = WorkflowRunLogsView
            /\ loading' = TRUE
            /\ cmds' = Issue(Cmd("logs", Selected(workflowRuns, runsIdx)))
            /\ UNCHANGED <<err, workflows, workflowRuns, allRuns, currentWorkflow, logVars>>
      [] OTHER -> UNCHANGED <<uiVars, dataVars, logVars, cmds>>

\* handleEnter
HandleEnter ==
    CASE viewState = AllRunsView /\ Selected(allRuns, allRunsIdx) # Nil ->
            /\ InFlight < MaxCmds
            /\ currentRun' = Selected(allRuns, allRunsIdx)
            /\ viewState' = WorkflowRunLogsView
            /\ loading' = TRUE
            /\ logOffset' = 0
            /\ logs' = EmptyLog
            /\ cmds' = Issue(Cmd("logs", Selected(allRuns, allRunsIdx)))
            /\ UNCHANGED <<err, workflows, workflowRuns, allRuns, currentWorkflow>>
      [] viewState = WorkflowListView /\ Selected(workflows, workflowIdx) # Nil ->
            /\ InFlight < MaxCmds
            /\ currentWorkflow' = Selected(workflows, workflowIdx)
            /\ viewState' = WorkflowRunsView
            /\ loading' = TRUE
            /\ cmds' = Issue(Cmd("runs", Selected(workflows, workflowIdx)))
            /\ UNCHANGED <<err, workflows, workflowRuns, allRuns, currentRun, logVars>>
      [] viewState = WorkflowRunsView /\ Selected(workflowRuns, runsIdx) # Nil ->
            /\ InFlight < MaxCmds
            /\ currentRun' = Selected(workflowRuns, runsIdx)
            /\ viewState' = WorkflowRunLogsView
            /\ loading' = TRUE
            /\ logOffset' = 0
            /\ logs' = EmptyLog
            /\ cmds' = Issue(Cmd("logs", Selected(workflowRuns, runsIdx)))
            /\ UNCHANGED <<err, workflows, workflowRuns, allRuns, currentWorkflow>>
      [] OTHER -> UNCHANGED <<uiVars, dataVars, logVars, cmds>>

\* A back that leaves the Logs view for the all-runs list whatever the context.
GoBackToAllRuns ==
    /\ viewState' = CASE viewState = WorkflowListView -> AllRunsView
                      [] viewState = WorkflowRunsView -> WorkflowListView
                      [] viewState = WorkflowRunLogsView -> AllRunsView
                      [] OTHER -> viewState
    /\ UNCHANGED <<loading, err, dataVars, logVars, cmds>>

\* A back that leaves the Logs view for the runs of a workflow whatever the context.
GoBackToWorkflowRuns ==
    /\ viewState' = CASE viewState = WorkflowListView -> AllRunsView
                      [] viewState = WorkflowRunsView -> WorkflowListView
                      [] viewState = WorkflowRunLogsView -> WorkflowRunsView
                      [] OTHER -> viewState
    /\ UNCHANGED <<loading, err, dataVars, logVars, cmds>>

\* goBack
GoBack ==
    /\ viewState' = CASE viewState = WorkflowListView -> AllRunsView
                      [] viewState = WorkflowRunsView -> WorkflowListView
                      [] viewState = WorkflowRunLogsView ->
                            IF currentWorkflow # Nil THEN WorkflowRunsView ELSE AllRunsView
                      [] OTHER -> viewState
    /\ UNCHANGED <<loading, err, dataVars, logVars, cmds>>

\* refresh
Refresh ==
    /\ loading' = TRUE
    /\ CASE viewState = AllRunsView ->
              /\ InFlight < MaxCmds
              /\ cmds' = Issue(Cmd("allRuns", 0))
              /\ UNCHANGED logVars
         [] viewState = WorkflowListView ->
              /\ InFlight < MaxCmds
              /\ cmds' = Issue(Cmd("workflows", 0))
              /\ UNCHANGED logVars
         [] viewState = WorkflowRunsView /\ currentWorkflow # Nil ->
              /\ InFlight < MaxCmds
              /\ cmds' = Issue(Cmd("runs", currentWorkflow))
              /\ UNCHANGED logVars
         [] viewState = WorkflowRunLogsView /\ currentRun # Nil ->
              /\ InFlight < MaxCmds
              /\ logOffset' = 0
              /\ logs' = EmptyLog
              /\ cmds' = Issue(Cmd("logs", currentRun))
         [] OTHER -> UNCHANGED <<logVars, cmds>>
    /\ UNCHANGED <<viewState, err, dataVars>>

\* A switch to the workflows that works from every view.
SwitchToWorkflowsViewAnywhere ==
    /\ InFlight < MaxCmds
    /\ viewState' = WorkflowListView
    /\ loading' = TRUE
    /\ cmds' = Issue(Cmd("workflows", 0))
    /\ UNCHANGED <<err, dataVars, pageVars>>

\* switchToWorkflowsView
SwitchToWorkflowsView ==
    IF viewState = AllRunsView
    THEN /\ InFlight < MaxCmds
         /\ viewState' = WorkflowListView
         /\ loading' = TRUE
         /\ cmds' = Issue(Cmd("workflows", 0))
         /\ UNCHANGED <<err, dataVars, pageVars>>
    ELSE UNCHANGED <<uiVars, dataVars, pageVars, cmds>>

\* A switch to all runs that keeps the workflow context.
SwitchToAllRunsViewKeepsWorkflow ==
    IF viewState \in {WorkflowListView, WorkflowRunsView}
    THEN /\ InFlight < MaxCmds
         /\ viewState' = AllRunsView
         /\ loading' = TRUE
         /\ cmds' = Issue(Cmd("allRuns", 0))
         /\ UNCHANGED <<err, dataVars, pageVars>>
    ELSE UNCHANGED <<uiVars, dataVars, pageVars, cmds>>

\* switchToAllRunsView
SwitchToAllRunsView ==
    IF viewState \in {WorkflowListView, WorkflowRunsView}
    THEN /\ InFlight < MaxCmds
         /\ viewState' = AllRunsView
         /\ currentWorkflow' = Nil
         /\ loading' = TRUE
         /\ cmds' = Issue(Cmd("allRuns", 0))
         /\ UNCHANGED <<err, workflows, workflowRuns, allRuns, currentRun, pageVars>>
    ELSE UNCHANGED <<uiVars, dataVars, pageVars, cmds>>

\* handleNextPage
HandleNextPage ==
    CASE viewState = WorkflowListView /\ workflowsPage * PerPage < workflowsTotal ->
            /\ InFlight < MaxCmds
            /\ workflowsPage' = workflowsPage + 1
            /\ loading' = TRUE
            /\ cmds' = Issue(Cmd("workflows", 0))
            /\ UNCHANGED <<viewState, err, workflowsTotal, allRunsPage, allRunsTotal>>
      [] viewState = AllRunsView /\ allRunsPage * PerPage < allRunsTotal ->
            /\ InFlight < MaxCmds
            /\ allRunsPage' = allRunsPage + 1
            /\ loading' = TRUE
            /\ cmds' = Issue(Cmd("allRuns", 0))
            /\ UNCHANGED <<viewState, err, workflowsPage, workflowsTotal, allRunsTotal>>
      [] OTHER -> UNCHANGED <<uiVars, pageVars, cmds>>

\* A previous-page that does not look at the page it is on.
HandlePrevPageUnguarded ==
    CASE viewState = WorkflowListView ->
            /\ InFlight < MaxCmds
            /\ workflowsPage' = workflowsPage - 1
            /\ loading' = TRUE
            /\ cmds' = Issue(Cmd("workflows", 0))
            /\ UNCHANGED <<viewState, err, workflowsTotal, allRunsPage, allRunsTotal>>
      [] viewState = AllRunsView ->
            /\ InFlight < MaxCmds
            /\ allRunsPage' = allRunsPage - 1
            /\ loading' = TRUE
            /\ cmds' = Issue(Cmd("allRuns", 0))
            /\ UNCHANGED <<viewState, err, workflowsPage, workflowsTotal, allRunsTotal>>
      [] OTHER -> UNCHANGED <<uiVars, pageVars, cmds>>

\* handlePrevPage
HandlePrevPage ==
    CASE viewState = WorkflowListView /\ workflowsPage > 1 ->
            /\ InFlight < MaxCmds
            /\ workflowsPage' = workflowsPage - 1
            /\ loading' = TRUE
            /\ cmds' = Issue(Cmd("workflows", 0))
            /\ UNCHANGED <<viewState, err, workflowsTotal, allRunsPage, allRunsTotal>>
      [] viewState = AllRunsView /\ allRunsPage > 1 ->
            /\ InFlight < MaxCmds
            /\ allRunsPage' = allRunsPage - 1
            /\ loading' = TRUE
            /\ cmds' = Issue(Cmd("allRuns", 0))
            /\ UNCHANGED <<viewState, err, workflowsPage, workflowsTotal, allRunsTotal>>
      [] OTHER -> UNCHANGED <<uiVars, pageVars, cmds>>

\* handleKeyMsg.  The workflow file overlay takes every key while it is open.
\* In the Logs view a key then goes through the Logs branch: the view-file
\* key, the search input, the jump input, "/", ":", "left" (goBack), esc
\* (the search is dropped), n and N, and at last handleLogNavigation; the
\* keys of the other views (enter, r, w, a, the page keys) change nothing
\* there.  The actions below are the keys outside the overlay and the two
\* input modes.

KeyEnter ==           \* enter; in the other views also right, l
    /\ ~Modal
    /\ IF InLogs THEN UNCHANGED <<uiVars, dataVars, logVars, cmds>> ELSE HandleEnter
    /\ UNCHANGED <<currentJobs, height, geomVars, extVars, modalVars, pageVars, idxVars, jobsCache, lastSet, debVars,
                   fetches, msgs, now>>

KeyBack ==            \* esc
    /\ ~Modal
    /\ IF InLogs
       THEN /\ searchActiveQuery' = <<>>
            /\ searchMatchIndices' = <<>>
            /\ searchMatchIndex' = -1
            /\ UNCHANGED <<uiVars, dataVars, logVars, cmds, searchInputMode, searchInputBuffer>>
       ELSE GoBack /\ UNCHANGED searchVars
    /\ UNCHANGED <<currentJobs, height, geomVars, extVars, jumpVars, fileVars, pageVars, idxVars, jobsCache, lastSet,
                   debVars, fetches, msgs, now>>

KeyLeft ==            \* left, h
    /\ ~Modal
    /\ IF InLogs THEN GoBack ELSE UNCHANGED <<uiVars, dataVars, logVars, cmds>>
    /\ UNCHANGED <<currentJobs, height, geomVars, extVars, modalVars, pageVars, idxVars, jobsCache, lastSet, debVars,
                   fetches, msgs, now>>

KeyRefresh ==         \* r
    /\ ~Modal
    /\ IF InLogs THEN UNCHANGED <<uiVars, dataVars, logVars, cmds>> ELSE Refresh
    /\ UNCHANGED <<currentJobs, height, geomVars, extVars, modalVars, pageVars, idxVars, jobsCache, lastSet, debVars,
                   fetches, msgs, now>>

KeyW ==               \* w
    /\ ~Modal
    /\ IF InLogs THEN UNCHANGED <<uiVars, dataVars, pageVars, cmds>>
       ELSE SwitchToWorkflowsView
    /\ UNCHANGED <<currentJobs, logVars, height, geomVars, extVars, modalVars, idxVars, jobsCache, lastSet, debVars,
                   fetches, msgs, now>>

KeyA ==               \* a
    /\ ~Modal
    /\ IF InLogs THEN UNCHANGED <<uiVars, dataVars, pageVars, cmds>>
       ELSE SwitchToAllRunsView
    /\ UNCHANGED <<currentJobs, logVars, height, geomVars, extVars, modalVars, idxVars, jobsCache, lastSet, debVars,
                   fetches, msgs, now>>

KeyNextPage ==        \* keyMap.NextPage
    /\ ~Modal
    /\ IF InLogs THEN UNCHANGED <<uiVars, pageVars, cmds>> ELSE HandleNextPage
    /\ UNCHANGED <<dataVars, currentJobs, logVars, height, geomVars, extVars, modalVars, idxVars, jobsCache, lastSet, debVars,
                   fetches, msgs, now>>

KeyPrevPage ==        \* keyMap.PrevPage
    /\ ~Modal
    /\ IF InLogs THEN UNCHANGED <<uiVars, pageVars, cmds>> ELSE HandlePrevPage
    /\ UNCHANGED <<dataVars, currentJobs, logVars, height, geomVars, extVars, modalVars, idxVars, jobsCache, lastSet, debVars,
                   fetches, msgs, now>>

\* q or ctrl+c, looked at before everything else: tea.Quit is returned, and
\* the runtime ends the program when that command has run.
Running == ~BagIn(Cmd("quit", 0), cmds)
KeyQuit ==
    /\ Running
    /\ cmds' = Issue(Cmd("quit", 0))
    /\ UNCHANGED <<uiVars, dataVars, currentJobs, logVars, height, geomVars, extVars, modalVars,
                   pageVars, idxVars, jobsCache, lastSet, debVars, fetches, msgs, now>>

\* ------------------------------------------- Logs view: file overlay
\* WorkflowRun.Path of a run as the API reports it, "" when it reports none;
\* HeadSha is never empty.  Workflow.Path is the fallback.
PathOf(run) == IF run = 1 THEN "ci.yml" ELSE ""
WorkflowPathOf(w) == IF w = Nil THEN "" ELSE "build.yml"
FilePath ==
    IF currentRun = Nil THEN ""
    ELSE IF PathOf(currentRun) = "" THEN WorkflowPathOf(currentWorkflow) ELSE PathOf(currentRun)
CanViewFile == currentRun # Nil /\ FilePath # ""

\* "f", right or l in the Logs view.  The check comes before the input modes:
\* with a path the overlay opens and its load is issued whatever the mode;
\* without one the key falls through, and only the search input takes "f".
KeyViewFile ==
    /\ InLogs /\ ~viewingWorkflowFile
    /\ IF CanViewFile
       THEN /\ InFlight < MaxCmds
            /\ workflowFileLoading' = TRUE
            /\ workflowFileContent' = EmptyLog
            /\ workflowFilePath' = FilePath
            /\ viewingWorkflowFile' = TRUE
            /\ cmds' = Issue([Cmd("file", currentRun) EXCEPT !.path = FilePath])
            /\ UNCHANGED <<searchVars, workflowFileOffset>>
       ELSE /\ searchInputMode /\ Len(searchInputBuffer) < MaxQuery
            /\ searchInputBuffer' = Append(searchInputBuffer, "f")
            /\ UNCHANGED <<searchInputMode, searchActiveQuery, searchMatchIndices,
                           searchMatchIndex, fileVars, cmds>>
    /\ UNCHANGED <<uiVars, dataVars, currentJobs, logVars, height, geomVars, extVars, jumpVars, pageVars, idxVars,
                   jobsCache, lastSet, debVars, fetches, msgs, now>>

\* A close that leaves the file buffer as it is.
FileCloseKeepsBuffer ==
    /\ viewingWorkflowFile
    /\ viewingWorkflowFile' = FALSE
    /\ UNCHANGED <<uiVars, dataVars, currentJobs, logVars, height, geomVars, extVars, searchVars, jumpVars,
                   workflowFileLoading, workflowFileContent, workflowFilePath,
                   workflowFileOffset, pageVars, idxVars, jobsCache, lastSet, debVars,
                   fetches, cmds, msgs, now>>

\* esc, left or h while the overlay is open
FileClose ==
    /\ viewingWorkflowFile
    /\ viewingWorkflowFile' = FALSE
    /\ workflowFileContent' = EmptyLog
    /\ workflowFilePath' = ""
    /\ workflowFileOffset' = 0
    /\ UNCHANGED <<uiVars, dataVars, currentJobs, logVars, height, geomVars, extVars, searchVars, jumpVars,
                   workflowFileLoading, pageVars, idxVars, jobsCache, lastSet, debVars,
                   fetches, cmds, msgs, now>>

\* The viewport of the overlay: viewHeight := a.height - 4, at least 1
FileViewHeight(h) == IF h - 4 < 1 THEN 1 ELSE h - 4
FileMaxOffset(text, h) ==
    IF Len(Lines(text)) - FileViewHeight(h) < 0 THEN 0
    ELSE Len(Lines(text)) - FileViewHeight(h)

\* The scroll keys of the overlay: the new workflowFileOffset for key k
FileNavigation(k, text, off, h) ==
    CASE k = "up" -> IF off > 0 THEN off - 1 ELSE off
      [] k = "down" -> IF off < FileMaxOffset(text, h) THEN off + 1 ELSE off
      [] k = "pgup" -> IF off - FileViewHeight(h) < 0 THEN 0 ELSE off - FileViewHeight(h)
      [] k = "pgdown" -> IF off + FileViewHeight(h) > FileMaxOffset(text, h)
                         THEN FileMaxOffset(text, h) ELSE off + FileViewHeight(h)
      [] k = "home" -> 0
      [] k = "end" -> FileMaxOffset(text, h)
      [] OTHER -> off

\* The keys of the views and of the Logs branch that the overlay swallows
ViewKeys == {"enter", "r", "w", "a", "f", "/", ":", "n"}

\* Any key but esc, left, h and quit while the overlay is open: nothing while
\* the file is loading, then the scroll keys move the viewport and every
\* other key is dropped.
FileKey(k) ==
    /\ viewingWorkflowFile
    /\ workflowFileOffset' =
          IF workflowFileLoading THEN workflowFileOffset
          ELSE FileNavigation(k, workflowFileContent, workflowFileOffset, height)
    /\ UNCHANGED <<uiVars, dataVars, currentJobs, logVars, height, geomVars, extVars, searchVars, jumpVars,
                   viewingWorkflowFile, workflowFileLoading, workflowFileContent,
                   workflowFilePath, pageVars, idxVars, jobsCache, lastSet, debVars,
                   fetches, cmds, msgs, now>>

\* --------------------------------------------------- Logs view: search
\* Strings are sequences of runes.  The runes of the log lines of LogText:
Chars(line) ==
    CASE line = "step" -> <<"s", "t", "e", "p">>
      [] line = "Error: x" -> <<"E", "r", "r", "o", "r", ":", " ", "x">>
      [] OTHER -> <<>>
Runes == {"E", "r"}                       \* runes typed into the search input

\* A lower-casing that leaves every rune as it is.
LowerRuneIdentity(c) == c

\* strings.ToLower
LowerRune(c) ==
    IF c = "E" THEN "e" ELSE c
ToLower(str) == [i \in 1..Len(str) |-> LowerRune(str[i])]

\* strings.Contains
Contains(str, sub) ==
    \E i \in 0..(Len(str) - Len(sub)) : SubSeq(str, i + 1, i + Len(sub)) = sub

\* The loop of the search confirm from line index i on: the indices of the
\* lines that hold the query, appended in the order of the loop.
RECURSIVE MatchesFrom(_, _, _)
MatchesFrom(lines, query, i) ==
    IF i >= Len(lines) THEN <<>>
    ELSE IF Contains(ToLower(Chars(lines[i + 1])), ToLower(query))
         THEN <<i>> \o MatchesFrom(lines, query, i + 1)
         ELSE MatchesFrom(lines, query, i + 1)

\* The goroutine-free part of a Logs key outside the overlay: nothing but the
\* search, jump and viewport fields can change.
LogsKeyFrame ==
    UNCHANGED <<uiVars, dataVars, currentJobs, logs, height, geomVars, extVars, fileVars, pageVars, idxVars,
                jobsCache, lastSet, debVars, fetches, cmds, msgs, now>>

SearchStart ==        \* "/"
    /\ InLogs /\ ~Modal
    /\ searchInputMode' = TRUE
    /\ searchInputBuffer' = <<>>
    /\ UNCHANGED <<searchActiveQuery, searchMatchIndices, searchMatchIndex, jumpVars, logOffset>>
    /\ LogsKeyFrame

SearchRune(r) ==      \* tea.KeyRunes in the search input
    /\ InLogs /\ ~viewingWorkflowFile /\ searchInputMode
    /\ Len(searchInputBuffer) < MaxQuery
    /\ searchInputBuffer' = Append(searchInputBuffer, r)
    /\ UNCHANGED <<searchInputMode, searchActiveQuery, searchMatchIndices, searchMatchIndex,
                   jumpVars, logOffset>>
    /\ LogsKeyFrame

SearchBackspace ==    \* tea.KeyBackspace in the search input
    /\ InLogs /\ ~viewingWorkflowFile /\ searchInputMode
    /\ searchInputBuffer' =
          IF Len(searchInputBuffer) > 0
          THEN SubSeq(searchInputBuffer, 1, Len(searchInputBuffer) - 1)
          ELSE searchInputBuffer
    /\ UNCHANGED <<searchInputMode, searchActiveQuery, searchMatchIndices, searchMatchIndex,
                   jumpVars, logOffset>>
    /\ LogsKeyFrame

SearchConfirm ==      \* tea.KeyEnter in the search input
    /\ InLogs /\ ~viewingWorkflowFile /\ searchInputMode
    /\ LET found == MatchesFrom(Lines(logs), searchInputBuffer, 0) IN
       /\ searchMatchIndices' = found
       /\ IF Len(found) > 0
          THEN /\ searchMatchIndex' = 0
               /\ logOffset' = IF found[1] > MaxOffset(logs, height)
                               THEN MaxOffset(logs, height) ELSE found[1]
          ELSE /\ searchMatchIndex' = -1
               /\ UNCHANGED logOffset
    /\ searchInputMode' = FALSE
    /\ searchActiveQuery' = searchInputBuffer
    /\ UNCHANGED <<searchInputBuffer, jumpVars>>
    /\ LogsKeyFrame

SearchCancel ==       \* tea.KeyEsc in the search input
    /\ InLogs /\ ~viewingWorkflowFile /\ searchInputMode
    /\ searchInputMode' = FALSE
    /\ searchInputBuffer' = <<>>
    /\ searchActiveQuery' = <<>>
    /\ searchMatchIndices' = <<>>
    /\ searchMatchIndex' = -1
    /\ UNCHANGED <<jumpVars, logOffset>>
    /\ LogsKeyFrame

\* A match jump that forgets the clamp to maxOffset.
MatchJumpUnclamped(next) ==
    /\ InLogs /\ ~Modal
    /\ IF searchActiveQuery # <<>> /\ Len(searchMatchIndices) > 0
       THEN /\ searchMatchIndex' = next
            /\ logOffset' = searchMatchIndices[next + 1]
       ELSE UNCHANGED <<searchMatchIndex, logOffset>>
    /\ UNCHANGED <<searchInputMode, searchInputBuffer, searchActiveQuery, searchMatchIndices,
                   jumpVars>>
    /\ LogsKeyFrame

\* n and N outside the input modes; handleLogNavigation then finds no key of its own.
MatchJump(next) ==
    /\ InLogs /\ ~Modal
    /\ IF searchActiveQuery # <<>> /\ Len(searchMatchIndices) > 0
       THEN /\ searchMatchIndex' = next
            /\ logOffset' = IF searchMatchIndices[next + 1] > MaxOffset(logs, height)
                            THEN MaxOffset(logs, height) ELSE searchMatchIndices[next + 1]
       ELSE UNCHANGED <<searchMatchIndex, logOffset>>
    /\ UNCHANGED <<searchInputMode, searchInputBuffer, searchActiveQuery, searchMatchIndices,
                   jumpVars>>
    /\ LogsKeyFrame

KeyNextMatch ==       \* n
    MatchJump(IF Len(searchMatchIndices) > 0
              THEN (searchMatchIndex + 1) % Len(searchMatchIndices) ELSE 0)

KeyPrevMatch ==       \* N
    MatchJump(IF Len(searchMatchIndices) > 0
              THEN (searchMatchIndex - 1 + Len(searchMatchIndices)) % Len(searchMatchIndices)
              ELSE 0)

\* ------------------------------------------------ Logs view: line jump
Digits == {"0", "1", "3"}                 \* digit runes typed into the jump input
OtherRunes == {"x"}                       \* a rune that is neither a digit nor a key of the view
DigitVal(d) ==
    CASE d = "0" -> 0 [] d = "1" -> 1 [] d = "3" -> 3

\* strconv.Atoi of a buffer of digits; <<n, ok>>, not ok for the empty buffer
RECURSIVE Decimal(_)
Decimal(buf) ==
    IF Len(buf) = 0 THEN 0
    ELSE Decimal(SubSeq(buf, 1, Len(buf) - 1)) * 10 + DigitVal(buf[Len(buf)])
Atoi(buf) == IF Len(buf) = 0 THEN <<0, FALSE>> ELSE <<Decimal(buf), TRUE>>

JumpStart ==          \* ":"
    /\ InLogs /\ ~Modal
    /\ jumpInputMode' = TRUE
    /\ jumpInputBuffer' = <<>>
    /\ UNCHANGED <<searchVars, logOffset>>
    /\ LogsKeyFrame

JumpRune(r) ==        \* tea.KeyRunes in the jump input
    /\ InLogs /\ ~viewingWorkflowFile /\ ~searchInputMode /\ jumpInputMode
    /\ IF r \in Digits
       THEN /\ Len(jumpInputBuffer) < MaxJump
            /\ jumpInputBuffer' = Append(jumpInputBuffer, r)
       ELSE UNCHANGED jumpInputBuffer
    /\ UNCHANGED <<searchVars, jumpInputMode, logOffset>>
    /\ LogsKeyFrame

JumpBackspace ==      \* tea.KeyBackspace in the jump input
    /\ InLogs /\ ~viewingWorkflowFile /\ ~searchInputMode /\ jumpInputMode
    /\ jumpInputBuffer' =
          IF Len(jumpInputBuffer) > 0
          THEN SubSeq(jumpInputBuffer, 1, Len(jumpInputBuffer) - 1)
          ELSE jumpInputBuffer
    /\ UNCHANGED <<searchVars, jumpInputMode, logOffset>>
    /\ LogsKeyFrame

\* A jump that takes every parsed number, 0 included.
JumpTargetAny(n, ok, off, maxOffset) ==
    IF ok
    THEN IF n - 1 > maxOffset THEN maxOffset ELSE n - 1
    ELSE off

\* The new logOffset of a jump confirm: offset n - 1, clamped from above,
\* for a parsed n > 0; the old offset otherwise.
JumpTarget(n, ok, off, maxOffset) ==
    IF ok /\ n > 0
    THEN IF n - 1 > maxOffset THEN maxOffset ELSE n - 1
    ELSE off

JumpConfirm ==        \* tea.KeyEnter in the jump input
    /\ InLogs /\ ~viewingWorkflowFile /\ ~searchInputMode /\ jumpInputMode
    /\ logOffset' = JumpTarget(Atoi(jumpInputBuffer)[1], Atoi(jumpInputBuffer)[2],
                               logOffset, MaxOffset(logs, height))
    /\ jumpInputMode' = FALSE
    /\ jumpInputBuffer' = <<>>
    /\ UNCHANGED searchVars
    /\ LogsKeyFrame

JumpCancel ==         \* tea.KeyEsc in the jump input
    /\ InLogs /\ ~viewingWorkflowFile /\ ~searchInputMode /\ jumpInputMode
    /\ jumpInputMode' = FALSE
    /\ jumpInputBuffer' = <<>>
    /\ UNCHANGED <<searchVars, logOffset>>
    /\ LogsKeyFrame

\* ---------------------------------------------------- logs.Processor
\* A line is a sequence of one-rune strings; Esc stands for the rune \x1b.
Esc == "ESC"
ParamRunes == {"0", "1", "2", "3", "4", "5", "6", "7", "8", "9", ";"}    \* [0-9;]

\* lipgloss.Style as far as updateStyleFromANSI touches it; fg "content" is
\* the foreground of the base style.
BaseStyle == [bold |-> FALSE, faint |-> FALSE, italic |-> FALSE, underline |-> FALSE,
              fg |-> "content"]

\* style.Render(text), and a line handed back as it came
Render(style, text) == [text |-> text, style |-> style, rendered |-> TRUE]
Unrendered(line) == [text |-> line, style |-> BaseStyle, rendered |-> FALSE]

\* containsANSI: strings.Contains(s, "\x1b[")
ContainsANSI(line) ==
    \E i \in 1..(Len(line) - 1) : line[i] = Esc /\ line[i + 1] = "["

\* The end of the run of [0-9;] that starts at rune i: the first index past it.
RECURSIVE ParamRunEnd(_, _)
ParamRunEnd(line, i) ==
    IF i <= Len(line) /\ line[i] \in ParamRunes THEN ParamRunEnd(line, i + 1) ELSE i

\* A match of \x1b\[[0-9;]*m at rune i: the index of its "m", 0 without a match.
MatchAt(line, i) ==
    IF i + 1 <= Len(line) /\ line[i] = Esc /\ line[i + 1] = "["
    THEN LET j == ParamRunEnd(line, i + 2) IN
         IF j <= Len(line) /\ line[j] = "m" THEN j ELSE 0
    ELSE 0

\* ansiRegex.FindAllStringIndex(line, -1) from rune i on: the matches from
\* left to right as <<start, end>>, counted as Go counts (line[start:end]).
RECURSIVE FindAllStringIndex(_, _)
FindAllStringIndex(line, i) ==
    IF i > Len(line) THEN <<>>
    ELSE IF MatchAt(line, i) > 0
         THEN <<<<i - 1, MatchAt(line, i)>>>> \o FindAllStringIndex(line, MatchAt(line, i) + 1)
         ELSE FindAllStringIndex(line, i + 1)

\* strings.Split(codes, ";")
RECURSIVE SplitCodes(_)
SplitCodes(codes) ==
    IF \E i \in 1..Len(codes) : codes[i] = ";"
    THEN LET i == CHOOSE k \in 1..Len(codes) :
                     codes[k] = ";" /\ \A q \in 1..(k - 1) : codes[q] # ";"
         IN <<SubSeq(codes, 1, i - 1)>> \o SplitCodes(SubSeq(codes, i + 1, Len(codes)))
    ELSE <<codes>>

\* The foreground codes of the switch and their colours
ForegroundCodes ==
    {<<"3", d>> : d \in {"0", "1", "2", "3", "4", "5", "6", "7"}} \cup
    {<<"9", d>> : d \in {"0", "1", "2", "3", "4", "5", "6", "7"}}
Color(part) ==
    CASE part = <<"3", "0">> -> "#000000"
      [] part = <<"3", "1">> -> "#ff0000"
      [] part = <<"3", "2">> -> "#00ff00"
      [] part = <<"3", "3">> -> "#ffff00"
      [] part = <<"3", "4">> -> "#0000ff"
      [] part = <<"3", "5">> -> "#ff00ff"
      [] part = <<"3", "6">> -> "#00ffff"
      [] part = <<"3", "7">> -> "#ffffff"
      [] part = <<"9", "0">> -> "#808080"
      [] part = <<"9", "1">> -> "#ff8080"
      [] part = <<"9", "2">> -> "#80ff80"
      [] part = <<"9", "3">> -> "#ffff80"
      [] part = <<"9", "4">> -> "#8080ff"
      [] part = <<"9", "5">> -> "#ff80ff"
      [] part = <<"9", "6">> -> "#80ffff"
      [] part = <<"9", "7">> -> "#ffffff"

\* One turn of the switch in updateStyleFromANSI
ApplyCode(style, part) ==
    CASE part = <<"0">> -> BaseStyle
      [] part = <<"1">> -> [style EXCEPT !.bold = TRUE]
      [] part = <<"2">> -> [style EXCEPT !.faint = TRUE]
      [] part = <<"3">> -> [style EXCEPT !.italic = TRUE]
      [] part = <<"4">> -> [style EXCEPT !.underline = TRUE]
      [] part \in ForegroundCodes -> [style EXCEPT !.fg = Color(part)]
      [] OTHER -> style

RECURSIVE ApplyCodes(_, _)
ApplyCodes(style, parts) ==
    IF Len(parts) = 0 THEN style
    ELSE ApplyCodes(ApplyCode(style, Head(parts)), Tail(parts))

\* updateStyleFromANSI(style, sequence)
UpdateStyleFromANSI(style, sequence) ==
    IF Len(sequence) < 4 THEN style
    ELSE LET trimmed == SubSeq(sequence, 3, Len(sequence) - 1)
             codes == IF trimmed = <<>> THEN <<"0">> ELSE trimmed
         IN ApplyCodes(style, SplitCodes(codes))

\* The loop of renderANSILine from match k on, and the text after the last match
RECURSIVE RenderMatches(_, _, _, _, _)
RenderMatches(line, matches, k, currentPos, currentStyle) ==
    IF k > Len(matches)
    THEN IF currentPos < Len(line)
         THEN <<Render(currentStyle, SubSeq(line, currentPos + 1, Len(line)))>>
         ELSE <<>>
    ELSE LET match == matches[k]
             sequence == SubSeq(line, match[1] + 1, match[2])
         IN (IF match[1] > currentPos
             THEN <<Render(currentStyle, SubSeq(line, currentPos + 1, match[1]))>>
             ELSE <<>>)
            \o RenderMatches(line, matches, k + 1, match[2],
                             UpdateStyleFromANSI(currentStyle, sequence))

RenderANSILine(line) ==
    RenderMatches(line, FindAllStringIndex(line, 1), 1, 0, BaseStyle)

\* processLine: what it returns, as the pieces its result is joined from
ProcessLine(line) ==
    IF ~ContainsANSI(line) THEN <<Unrendered(line)>> ELSE RenderANSILine(line)

\* The lines handed to the processor: up to MaxTokens pieces, each a rune of
\* text, an SGR sequence of up to MaxParams codes, or an introducer that no
\* "m" ends.
Codes == {<<"0">>, <<"1">>, <<"3", "1">>, <<"7">>}
ParamLists == UNION {[1..n -> Codes] : n \in 0..MaxParams}
RECURSIVE JoinCodes(_)
JoinCodes(ps) ==
    IF Len(ps) = 0 THEN <<>>
    ELSE IF Len(ps) = 1 THEN ps[1]
    ELSE ps[1] \o <<";">> \o JoinCodes(Tail(ps))
Tokens == {<<Esc, "[">> \o JoinCodes(ps) \o <<"m">> : ps \in ParamLists}
              \cup {<<"x">>, <<Esc, "[">>}
RECURSIVE Flatten(_)
Flatten(ts) == IF Len(ts) = 0 THEN <<>> ELSE Head(ts) \o Flatten(Tail(ts))
LinesOf(max) == {Flatten(ts) : ts \in UNION {[1..n -> Tokens] : n \in 0..max}}

\* ProcessLogLines reaches the line: processLine(line)
ProcessLineStep ==
    /\ ansiOut' = ProcessLine(ansiLine)
    /\ UNCHANGED <<ansiLine, fromVars, watchVars, uiVars, dataVars, currentJobs, logVars, height, geomVars,
                   modalVars, pageVars, idxVars, jobsCache, lastSet, debVars, fetches,
                   cmds, msgs, now>>

\* ------------------------------------------------------ watch mode
\* internal/tui/app.go, the build of App with watch mode.  Its loads have no
\* pages and its jobs load has no cache.
\* loadAllRuns and loadWorkflowRunJobs: the collaborator call returns.
WatchCmdDone(c) ==
    /\ BagIn(c, cmds)
    /\ c.kind \in {"loadAllRuns", "loadWorkflowRunJobs"}
    /\ cmds' = cmds (-) SetToBag({c})
    /\ CASE c.kind = "loadAllRuns" ->
              \E rs \in RunLists : \E r \in (IF Len(rs) = 0 THEN {FALSE} ELSE BOOLEAN) :
                 msgs' = msgs (+) SetToBag({[Msg("allRunsLoadedMsg") EXCEPT
                        !.items = rs, !.running = r]})
         [] c.kind = "loadWorkflowRunJobs" ->
              \E j \in JobsOf(c.arg) :
                 msgs' = msgs (+) SetToBag({[Msg("jobsLoadedMsg") EXCEPT !.jobs = j]})
    /\ UNCHANGED <<uiVars, dataVars, currentJobs, logVars, height, geomVars, extVars, modalVars,
                   pageVars, idxVars, jobsCache, lastSet, debVars, fetches, now>>

\* The allRunsLoadedMsg case: the runs are stored, watch mode turns itself on
\* when a run is running, and with watch mode on a tick is scheduled.
OnAllRunsLoaded(m) ==
    LET on == watchMode \/ m.running IN
    /\ BagIn(m, msgs) /\ m.kind = "allRunsLoadedMsg"
    /\ msgs' = msgs (-) SetToBag({m})
    /\ allRuns' = m.items
    /\ hasRunning' = m.running
    /\ loading' = FALSE
    /\ cmds' = IF Len(m.items) > 0 THEN Issue(Cmd("loadWorkflowRunJobs", m.items[1])) ELSE cmds
    /\ watchMode' = on
    /\ IF on
       THEN pendingTicks < MaxTicks /\ pendingTicks' = pendingTicks + 1
       ELSE pendingTicks' = pendingTicks
    /\ UNCHANGED <<viewState, err, workflows, workflowRuns, currentWorkflow, currentRun,
                   currentJobs, logVars, height, geomVars, procVars, fromVars, modalVars,
                   pageVars, idxVars, jobsCache, lastSet, debVars, fetches, now>>

\* autoRefresh: the commands in flight after the load of the current view is issued
AutoRefresh ==
    CASE viewState = AllRunsView -> Issue(Cmd("loadAllRuns", 0))
      [] viewState = WorkflowListView -> Issue(Cmd("loadWorkflows", 0))
      [] viewState = WorkflowRunsView /\ currentWorkflow # Nil ->
            Issue(Cmd("loadWorkflowRuns", currentWorkflow))
      [] viewState = WorkflowRunLogsView /\ currentRun # Nil ->
            Issue(Cmd("loadWorkflowRunLogs", currentRun))
      [] OTHER -> cmds

\* A scheduled tick is delivered, the watchTickMsg case: with watch mode on the
\* view is refreshed and the next tick is scheduled.
OnWatchTick ==
    /\ pendingTicks > 0
    /\ IF watchMode
       THEN /\ InFlight < MaxCmds
            /\ cmds' = AutoRefresh
            /\ pendingTicks' = (pendingTicks - 1) + 1
       ELSE /\ cmds' = cmds
            /\ pendingTicks' = pendingTicks - 1
    /\ UNCHANGED <<uiVars, dataVars, currentJobs, logVars, height, geomVars, procVars, fromVars,
                   watchMode, hasRunning, modalVars, pageVars, idxVars, jobsCache, lastSet,
                   debVars, fetches, msgs, now>>

\* toggleWatchMode, the t key
ToggleWatchMode ==
    /\ watchMode' = ~watchMode
    /\ IF ~watchMode
       THEN pendingTicks < MaxTicks /\ pendingTicks' = pendingTicks + 1
       ELSE pendingTicks' = pendingTicks
    /\ UNCHANGED <<uiVars, dataVars, currentJobs, logVars, height, geomVars, procVars, fromVars,
                   hasRunning, modalVars, pageVars, idxVars, jobsCache, lastSet,
                   debVars, fetches, cmds, msgs, now>>

\* ------------------------------------------------- specifications
\* The controller: views, loads and their completion events.
Next ==
    \/ \E c \in BagToSet(cmds) : CmdStart(c)
    \/ \E c \in BagToSet(cmds) : \E e \in Errors : CmdFail(c, e)
    \/ \E c \in BagToSet(cmds) : CmdDone(c)
    \/ \E m \in BagToSet(msgs) : OnAllRunsPaginatedLoaded(m)
    \/ \E m \in BagToSet(msgs) : OnWorkflowsPaginatedLoaded(m)
    \/ \E m \in BagToSet(msgs) : OnWorkflowRunsLoaded(m)
    \/ \E m \in BagToSet(msgs) : OnErrorMsg(m)
    \/ \E m \in BagToSet(msgs) : OnLogsLoaded(m)
    \/ \E m \in BagToSet(msgs) : OnJobsLoaded(m)
    \/ KeyEnter
    \/ KeyBack
    \/ KeyLeft
    \/ KeyRefresh
    \/ KeyW
    \/ KeyA
    \/ KeyNextPage
    \/ KeyPrevPage

Spec == Init /\ [][Next]_vars

\* The preview of the selected run: cursor keys in the all-runs list, the
\* debounce timer, its callback and network call, the cache and the clock.
NextJobs ==
    \/ \E c \in BagToSet(cmds) : CmdStart(c)
    \/ \E c \in BagToSet(cmds) : \E e \in Errors : CmdFail(c, e)
    \/ \E c \in BagToSet(cmds) : CmdDone(c)
    \/ \E m \in BagToSet(msgs) : OnAllRunsPaginatedLoaded(m)
    \/ \E m \in BagToSet(msgs) : OnErrorMsg(m)
    \/ \E m \in BagToSet(msgs) : OnJobsLoaded(m)
    \/ \E k \in {"up", "down"} : KeyNav(k)
    \/ \E t \in timers : TimerFire(t)
    \/ \E t \in timers : ExecuteJobsLoad(t)
    \/ \E f \in BagToSet(fetches) : JobsFetchDone(f)
    \/ \E f \in BagToSet(fetches) : JobsFetchFail(f)
    \/ Cleanup
    \/ Tick

SpecJobs == Init /\ [][NextJobs]_vars

\* The log viewer: opening a run from the all-runs list, the logs load,
\* resizing and scrolling.
NextLog ==
    \/ \E c \in BagToSet(cmds) : CmdStart(c)
    \/ \E c \in BagToSet(cmds) : \E e \in Errors : CmdFail(c, e)
    \/ \E c \in BagToSet(cmds) : CmdDone(c)
    \/ \E m \in BagToSet(msgs) : OnAllRunsPaginatedLoaded(m)
    \/ \E m \in BagToSet(msgs) : OnErrorMsg(m)
    \/ \E m \in BagToSet(msgs) : OnLogsLoaded(m)
    \/ \E m \in BagToSet(msgs) : OnJobsLoaded(m)
    \/ \E h \in Heights : InLogs /\ Resize(NarrowWidth, h)    \* resized while the log is shown
    \/ \E k \in NavKeys : KeyNav(k)
    \/ KeyEnter
    \/ KeyLeft

SpecLog == Init /\ [][NextLog]_vars

\* The search of the log viewer: a run is opened from the all-runs list, its
\* log is searched and the matches are visited.
NextSearch ==
    \/ \E c \in BagToSet(cmds) : CmdStart(c)
    \/ \E c \in BagToSet(cmds) : CmdDone(c)
    \/ \E m \in BagToSet(msgs) : OnAllRunsPaginatedLoaded(m)
    \/ \E m \in BagToSet(msgs) : OnLogsLoaded(m)
    \/ \E m \in BagToSet(msgs) : OnJobsLoaded(m)
    \/ \E h \in Heights : InLogs /\ Resize(NarrowWidth, h)    \* resized while the log is shown
    \/ \E k \in {"down"} : KeyNav(k)
    \/ KeyEnter
    \/ KeyLeft
    \/ KeyBack
    \/ SearchStart
    \/ \E r \in Runes : SearchRune(r)
    \/ SearchBackspace
    \/ SearchConfirm
    \/ SearchCancel
    \/ KeyNextMatch
    \/ KeyPrevMatch

SpecSearch == Init /\ [][NextSearch]_vars

\* The line jump of the log viewer.
NextJump ==
    \/ \E c \in BagToSet(cmds) : CmdStart(c)
    \/ \E c \in BagToSet(cmds) : CmdDone(c)
    \/ \E m \in BagToSet(msgs) : OnAllRunsPaginatedLoaded(m)
    \/ \E m \in BagToSet(msgs) : OnLogsLoaded(m)
    \/ \E m \in BagToSet(msgs) : OnJobsLoaded(m)
    \/ \E m \in BagToSet(msgs) : OnWorkflowFileLoaded(m)
    \/ \E h \in Heights : InLogs /\ Resize(NarrowWidth, h)    \* resized while the log is shown
    \/ KeyEnter
    \/ KeyLeft
    \/ KeyViewFile
    \/ FileClose
    \/ JumpStart
    \/ \E r \in Digits \cup OtherRunes : JumpRune(r)
    \/ JumpBackspace
    \/ JumpConfirm
    \/ JumpCancel

SpecJump == Init /\ [][NextJump]_vars

\* The panels: the views are visited and the terminal is resized.
NextLayout ==
    \/ \E c \in BagToSet(cmds) : CmdStart(c)
    \/ \E c \in BagToSet(cmds) : CmdDone(c)
    \/ \E m \in BagToSet(msgs) : OnAllRunsPaginatedLoaded(m)
    \/ \E m \in BagToSet(msgs) : OnWorkflowsPaginatedLoaded(m)
    \/ \E m \in BagToSet(msgs) : OnWorkflowRunsLoaded(m)
    \/ \E m \in BagToSet(msgs) : OnLogsLoaded(m)
    \/ \E m \in BagToSet(msgs) : OnJobsLoaded(m)
    \/ \E sz \in TerminalSizes : Resize(sz[1], sz[2])
    \/ KeyEnter
    \/ KeyBack
    \/ KeyLeft
    \/ KeyW
    \/ KeyA

SpecLayout == Init /\ [][NextLayout]_vars

\* The pages of the two lists: refresh, next page and previous page in the
\* all-runs and the workflow list, loads that fail, and the history of the
\* page each list's items were asked from.
NextPages ==
    \/ \E c \in BagToSet(cmds) : CmdStart(c)
    \/ \E c \in BagToSet(cmds) : \E e \in Errors : CmdFail(c, e)
    \/ \E c \in BagToSet(cmds) : CmdDone(c)
    \/ \E m \in BagToSet(msgs) : AllRunsPaginatedLoaded(m, m.asked)
    \/ \E m \in BagToSet(msgs) : WorkflowsPaginatedLoaded(m, m.asked)
    \/ \E m \in BagToSet(msgs) : OnErrorMsg(m)
    \/ \E m \in BagToSet(msgs) : OnJobsLoaded(m)
    \/ KeyRefresh
    \/ KeyW
    \/ KeyBack
    \/ KeyNextPage
    \/ KeyPrevPage

SpecPages == Init /\ [][NextPages]_vars

\* Loads and their completion: the loads of the four views are issued by
\* confirm, refresh and the w key, and every command issued completes and
\* every message produced is delivered.
NextLoad ==
    \/ \E c \in BagToSet(cmds) : CmdStart(c)
    \/ \E c \in BagToSet(cmds) : \E e \in Errors : CmdFail(c, e)
    \/ \E c \in BagToSet(cmds) : CmdDone(c)
    \/ \E m \in BagToSet(msgs) : OnAllRunsPaginatedLoaded(m)
    \/ \E m \in BagToSet(msgs) : OnWorkflowsPaginatedLoaded(m)
    \/ \E m \in BagToSet(msgs) : OnWorkflowRunsLoaded(m)
    \/ \E m \in BagToSet(msgs) : OnErrorMsg(m)
    \/ \E m \in BagToSet(msgs) : OnLogsLoaded(m)
    \/ \E m \in BagToSet(msgs) : OnJobsLoaded(m)
    \/ KeyEnter
    \/ KeyBack
    \/ KeyRefresh
    \/ KeyW

\* A tea.Cmd runs in its own goroutine and its message is sent to the event
\* loop, which handles the messages it receives one after the other: no
\* command of a kind and no message of a type waits for ever.
CmdKinds == LoadKinds \cup {"jobs"}
MsgKinds == {"allRunsPaginatedLoadedMsg", "workflowsPaginatedLoadedMsg",
             "workflowRunsLoadedMsg", "logsLoadedMsg", "jobsLoadedMsg", "errorMsg"}
Completes(k) ==
    \E c \in BagToSet(cmds) :
        /\ c.kind = k
        /\ CmdStart(c) \/ CmdDone(c)
Delivered(k) ==
    \E m \in BagToSet(msgs) :
        /\ m.kind = k
        /\ \/ OnAllRunsPaginatedLoaded(m) \/ OnWorkflowsPaginatedLoaded(m)
           \/ OnWorkflowRunsLoaded(m) \/ OnErrorMsg(m)
           \/ OnLogsLoaded(m) \/ OnJobsLoaded(m)
Fairness ==
    /\ \A k \in CmdKinds : WF_vars(Completes(k))
    /\ \A k \in MsgKinds : WF_vars(Delivered(k))

FairSpecLoad == Init /\ [][NextLoad]_vars /\ Fairness

\* Watch mode in the all-runs view of internal/tui/app.go: the first load,
\* the watch key, the ticks and the loads they issue.
InitWatch ==
    /\ NewAppWith(Cmd("loadAllRuns", 0))
    /\ ansiLine = <<>> /\ ansiOut = <<>>
NextWatch ==
    \/ \E c \in BagToSet(cmds) : WatchCmdDone(c)
    \/ \E m \in BagToSet(msgs) : OnAllRunsLoaded(m)
    \/ \E m \in BagToSet(msgs) : OnJobsLoaded(m)
    \/ OnWatchTick
    \/ ToggleWatchMode

SpecWatch == InitWatch /\ [][NextWatch]_vars

\* The workflow file overlay: a run is opened from the all-runs list, its
\* workflow file is read, scrolled and closed; the keys of the Logs view are
\* pressed as well.
NextFile ==
    \/ \E c \in BagToSet(cmds) : CmdStart(c)
    \/ \E c \in BagToSet(cmds) : CmdDone(c)
    \/ \E m \in BagToSet(msgs) : OnAllRunsPaginatedLoaded(m)
    \/ \E m \in BagToSet(msgs) : OnLogsLoaded(m)
    \/ \E m \in BagToSet(msgs) : OnJobsLoaded(m)
    \/ \E m \in BagToSet(msgs) : OnWorkflowFileLoaded(m)
    \/ \E h \in Heights : InLogs /\ Resize(NarrowWidth, h)    \* resized while the log is shown
    \/ \E k \in {"down"} : KeyNav(k)
    \/ KeyEnter
    \/ KeyLeft
    \/ KeyViewFile
    \/ FileClose
    \/ \E k \in NavKeys \cup ViewKeys : FileKey(k)
    \/ JumpStart
    \/ JumpCancel

SpecFile == Init /\ [][NextFile]_vars

\* Typing in the search input: a run is opened from the all-runs list and
\* the keys of the search input are pressed, the view-file key and the quit
\* key among them, until the program is told to quit.
NextType ==
    \/ \E c \in BagToSet(cmds) : Running /\ CmdStart(c)
    \/ \E c \in BagToSet(cmds) : Running /\ CmdDone(c)
    \/ \E m \in BagToSet(msgs) : Running /\ OnAllRunsPaginatedLoaded(m)
    \/ \E m \in BagToSet(msgs) : Running /\ OnLogsLoaded(m)
    \/ \E m \in BagToSet(msgs) : Running /\ OnJobsLoaded(m)
    \/ \E m \in BagToSet(msgs) : Running /\ OnWorkflowFileLoaded(m)
    \/ \E k \in {"down"} : Running /\ KeyNav(k)
    \/ Running /\ KeyEnter
    \/ Running /\ KeyViewFile
    \/ Running /\ FileClose
    \/ Running /\ SearchStart
    \/ \E r \in Runes : Running /\ SearchRune(r)
    \/ Running /\ SearchBackspace
    \/ Running /\ SearchCancel
    \/ KeyQuit

SpecType == Init /\ [][NextType]_vars

\* The log processor: one line of a log, any line of up to MaxTokens pieces, is processed.
InitAnsi ==
    /\ NewApp
    /\ ansiLine \in LinesOf(MaxTokens) /\ ansiOut = <<>>
NextAnsi ==
    \/ ProcessLineStep

SpecAnsi == InitAnsi /\ [][NextAnsi]_vars

\* ------------------------------------------------------------ claims
\* The run under the cursor of the runs list shown, Nil when there is none.
SelectedRun ==
    CASE viewState = AllRunsView -> Selected(allRuns, allRunsIdx)
      [] viewState = WorkflowRunsView -> Selected(workflowRuns, runsIdx)
      [] OTHER -> Nil

\* C1: while run B stays the selected run and B's jobs are shown, no step
\* replaces currentJobs by the jobs of another run.
C1_NoStaleOverwrite ==
    [][(SelectedRun # Nil /\ SelectedRun' = SelectedRun /\ currentJobs.run = SelectedRun)
          => currentJobs'.run = SelectedRun]_vars

\* C2: when the network call of executeJobsLoad for run R returns and R is no
\* longer pendingRunID, the result is dropped: currentJobs stays as it is.
C2_StaleResultDiscarded ==
    [][\A f \in BagToSet(fetches) :
          (JobsFetchDone(f) /\ f.run # pendingRunID) => currentJobs' = currentJobs]_vars

\* C3: a network jobs fetch of the debounce path is issued only by the callback
\* of the timer started by the last selection change, never by the callback of
\* a timer that a later change has superseded.
C3_FetchOnlyByLastTimer == \A f \in BagToSet(fetches) : f.latest

\* C4: a step of a timer callback or of the network goroutine of
\* executeJobsLoad writes no controller state.
controllerState == <<uiVars, dataVars, currentJobs, logVars, height, pageVars, idxVars>>
C4_OnlyEventLoopWrites ==
    [][((\E t \in timers : ExecuteJobsLoad(t)) \/ (\E f \in BagToSet(fetches) : JobsFetchDone(f)))
          => UNCHANGED controllerState]_vars

\* C5: a step that issues a load command (all runs, workflows, runs, logs)
\* leaves loading set and no error recorded.
LoadIssued == \E c \in BagToSet(cmds') :
    /\ c.kind \in LoadKinds /\ c.req = 0
    /\ CopiesIn(c, cmds') > CopiesIn(c, cmds)
C5_LoadClearsError == [][LoadIssued => (loading' /\ err' = NoErr)]_vars

\* C6: in every view the refresh key issues the load of that view.
ViewLoad ==
    CASE viewState = AllRunsView -> Cmd("allRuns", 0)
      [] viewState = WorkflowListView -> Cmd("workflows", 0)
      [] viewState = WorkflowRunsView -> Cmd("runs", currentWorkflow)
      [] viewState = WorkflowRunLogsView -> Cmd("logs", currentRun)
C6_RefreshReissuesLoad ==
    InFlight < MaxCmds => ENABLED (KeyRefresh /\ cmds' = Issue(ViewLoad))

\* C7: Get(id) is decided by the last Set(id, jobs) alone: a hit with those
\* jobs while the age is at most the TTL, a miss after that and before any Set,
\* whatever sweeps and whatever Get and Set for other ids happened since.
C7_CacheTTL ==
    \A r \in RunIDs :
        CacheGet(jobsCache, r, now) =
            IF lastSet[r].ts >= 0 /\ now - lastSet[r].ts <= CacheTTL
            THEN <<lastSet[r].jobs, TRUE>>
            ELSE <<NoJobs, FALSE>>

\* C7 witness: an entry set after start-up is exactly TTL old, a sweep or not
\* in between, and is still in the cache.
C7_Witness ==
    \E r \in RunIDs :
        /\ lastSet[r].ts > 0
        /\ jobsCache[r].ts = lastSet[r].ts
        /\ now - lastSet[r].ts = CacheTTL

\* C8: the log viewport is in range in every state.
OffsetInRange(off, text, h) ==
    0 <= off /\ off <= Max(0, Len(Lines(text)) - ViewHeight(h))
C8_OffsetInRange == OffsetInRange(logOffset, logs, height)

\* C9: whenever View renders the lines of the Logs view on a terminal of
\* height >= 1, the window it slices is 0 <= start <= end <= lineCount.
C9_RenderWindowValid ==
    (RendersLogLines /\ height >= 1) =>
        LET w == RenderWindow(logs, logOffset, height) IN
        0 <= w[1] /\ w[1] <= w[2] /\ w[2] <= Len(Lines(logs))

\* C10: from a viewport in range with a viewport height >= 0, every scroll
\* operation of handleLogNavigation gives a viewport in range.
C10_ScrollStaysInRange ==
    (ViewHeight(height) >= 0 /\ OffsetInRange(logOffset, logs, height)) =>
        \A k \in NavKeys :
            OffsetInRange(LogNavigation(k, logs, logOffset, height), logs, height)

\* C10 witness: in the Logs view, scrolled off the top to the last offset.
C10_Witness ==
    /\ InLogs /\ ViewHeight(height) >= 1
    /\ logOffset > 0 /\ logOffset = MaxOffset(logs, height)

\* The claims' own reading of the log: does the line hold the query, letters
\* compared without regard to case?
SameRune(a, b) == a = b \/ {a, b} = {"e", "E"}
HoldsQuery(line, q) ==
    \E i \in 0..(Len(Chars(line)) - Len(q)) :
        \A j \in 1..Len(q) : SameRune(Chars(line)[i + j], q[j])
Clamp(target, text, h) == Max(0, Min(target, Max(0, Len(Lines(text)) - ViewHeight(h))))
StrictlyIncreasing(seq) == \A k \in 1..(Len(seq) - 1) : seq[k] < seq[k + 1]

\* C11: confirming a non-empty query q sets matchIndices to the indices, in
\* increasing order, of exactly the lines of the whole log that hold q without
\* regard to case; with a match the cursor is 0 and logOffset is
\* min(first match, maxOffset), without one the cursor is -1 and logOffset
\* stays; the input mode ends and q is the active query.
C11_SearchConfirm ==
    [][(SearchConfirm /\ searchInputBuffer # <<>>) =>
          LET q == searchInputBuffer
              n == Len(Lines(logs))
              found == searchMatchIndices'
          IN /\ \A k \in 1..Len(found) : found[k] \in 0..(n - 1)
             /\ \A i \in 0..(n - 1) :
                   (\E k \in 1..Len(found) : found[k] = i) <=> HoldsQuery(Lines(logs)[i + 1], q)
             /\ StrictlyIncreasing(found)
             /\ IF Len(found) > 0
                THEN searchMatchIndex' = 0 /\ logOffset' = Clamp(found[1], logs, height)
                ELSE searchMatchIndex' = -1 /\ logOffset' = logOffset
             /\ ~searchInputMode'
             /\ searchActiveQuery' = q]_vars

\* C11 witness: a confirmed query whose first match is not the first line, the
\* viewport on that match.
C11_Witness ==
    /\ InLogs /\ ~searchInputMode /\ searchActiveQuery # <<>>
    /\ Len(searchMatchIndices) > 0 /\ searchMatchIndex = 0
    /\ searchMatchIndices[1] > 0 /\ logOffset = searchMatchIndices[1]

\* C12: confirming the empty query leaves no match and no active query.
C12_EmptyQueryClears ==
    [][(SearchConfirm /\ searchInputBuffer = <<>>) =>
          (searchMatchIndices' = <<>> /\ searchActiveQuery' = <<>>)]_vars

\* C13: with an active query and N > 0 matches n moves the cursor to
\* (i+1) mod N and N to (i-1+N) mod N, the cursor stays within 0..N-1 and
\* logOffset becomes the match's line clamped to [0, maxOffset]; without an
\* active query or without matches neither key changes cursor or offset.
SearchActive == searchActiveQuery # <<>> /\ Len(searchMatchIndices) > 0
MatchStep(next) ==
    LET N == Len(searchMatchIndices) IN
    IF SearchActive
    THEN /\ searchMatchIndex' = next
         /\ searchMatchIndex' \in 0..(N - 1)
         /\ logOffset' = Clamp(searchMatchIndices[searchMatchIndex' + 1], logs, height)
    ELSE UNCHANGED <<searchMatchIndex, logOffset>>
C13_MatchCycle ==
    [][/\ SearchActive => searchMatchIndex \in 0..(Len(searchMatchIndices) - 1)
       /\ KeyNextMatch =>
             MatchStep((searchMatchIndex + 1) % Max(1, Len(searchMatchIndices)))
       /\ KeyPrevMatch =>
             MatchStep((searchMatchIndex - 1 + Len(searchMatchIndices))
                          % Max(1, Len(searchMatchIndices)))]_vars

\* C13 witness: the cursor has wrapped to the last of three matches, whose
\* line lies beyond maxOffset.
C13_Witness ==
    /\ InLogs /\ ~Modal /\ SearchActive
    /\ Len(searchMatchIndices) = 3 /\ searchMatchIndex = 2
    /\ searchMatchIndices[3] > MaxOffset(logs, height)
    /\ logOffset = MaxOffset(logs, height)

\* C14: in every state the cursor is -1 when there is no match and an index
\* of matchIndices otherwise, and matchIndices is strictly increasing.
C14_SearchStateInvariant ==
    /\ IF Len(searchMatchIndices) = 0
       THEN searchMatchIndex = -1
       ELSE searchMatchIndex \in 0..(Len(searchMatchIndices) - 1)
    /\ StrictlyIncreasing(searchMatchIndices)

\* C15: confirming a jump buffer that holds the number N >= 0 sets logOffset to
\* N-1 clamped to [0, maxOffset], N = 0 included, and ends the jump input with
\* an empty buffer.
JumpNumber == Atoi(jumpInputBuffer)[1]
C15_JumpClamped ==
    [][(JumpConfirm /\ Atoi(jumpInputBuffer)[2]) =>
          /\ logOffset' = Clamp(JumpNumber - 1, logs, height)
          /\ ~jumpInputMode' /\ jumpInputBuffer' = <<>>]_vars

\* C15 as amended: for N >= 1 logOffset becomes min(N-1, maxOffset), for
\* N = 0 it stays; the jump input ends with an empty buffer.
C15_JumpFromOne ==
    [][(JumpConfirm /\ Atoi(jumpInputBuffer)[2]) =>
          /\ JumpNumber >= 1 => logOffset' = Clamp(JumpNumber - 1, logs, height)
          /\ JumpNumber = 0 => logOffset' = logOffset
          /\ ~jumpInputMode' /\ jumpInputBuffer' = <<>>]_vars

\* C15 witness: a jump beyond the last line has put the viewport on maxOffset.
C15_Witness ==
    /\ InLogs /\ ~Modal /\ logOffset > 0 /\ logOffset = MaxOffset(logs, height)

\* C16: in the jump input a key that is neither digit, backspace, confirm nor
\* cancel changes neither the buffer, the mode, viewState, the overlay nor the
\* viewport and issues no command.
C16_JumpIgnoresOtherKeys ==
    [][(jumpInputMode /\ (KeyViewFile \/ \E r \in OtherRunes : JumpRune(r))) =>
          (UNCHANGED <<jumpVars, viewState, fileVars, logVars>> /\ cmds' = cmds)]_vars

\* C17: confirm on a non-empty list opens the Logs view of the selected run
\* (from AllRuns and from WorkflowRuns: currentRun set, logOffset 0, log text
\* emptied, one logs load issued) or the runs of the selected workflow (from
\* WorkflowList: currentWorkflow set, one runs load issued), loading set;
\* confirm on an empty list changes nothing and issues nothing.
OpensLogs(run) ==
    /\ run # Nil
    /\ viewState' = WorkflowRunLogsView /\ currentRun' = run
    /\ logOffset' = 0 /\ logs' = EmptyLog /\ loading'
    /\ cmds' = cmds (+) SetToBag({Cmd("logs", run)})
OpensRuns(w) ==
    /\ w # Nil
    /\ viewState' = WorkflowRunsView /\ currentWorkflow' = w /\ loading'
    /\ cmds' = cmds (+) SetToBag({Cmd("runs", w)})
C18_SwitchToWorkflowsAnywhere ==
    InFlight < MaxCmds =>
        ENABLED (KeyW /\ viewState' = WorkflowListView /\ loading'
                      /\ cmds' = Issue(Cmd("workflows", 0)))

\* C18 as amended: from AllRuns the key shows the workflow list, sets loading
\* and issues a workflows load; from the other views it leaves viewState and
\* loading as they are and issues nothing.
C18_SwitchToWorkflowsFromAllRuns ==
    [][KeyW =>
          IF viewState = AllRunsView
          THEN /\ viewState' = WorkflowListView /\ loading'
               /\ cmds' = cmds (+) SetToBag({Cmd("workflows", 0)})
          ELSE UNCHANGED <<viewState, loading, cmds>>]_vars

\* C18 witness: the workflow list is shown, its load under way, no workflow
\* loaded before.
C18_Witness ==
    /\ viewState = WorkflowListView /\ loading /\ workflows = <<>>
    /\ BagIn(Cmd("workflows", 0), cmds)

\* C19: from every view the switch-to-all-runs key shows all runs, clears
\* currentWorkflow, sets loading and issues an all-runs load.
C19_SwitchToAllRunsAnywhere ==
    InFlight < MaxCmds =>
        ENABLED (KeyA /\ viewState' = AllRunsView /\ currentWorkflow' = Nil /\ loading'
                      /\ cmds' = Issue(Cmd("allRuns", 0)))

\* C19 as amended: from WorkflowList and WorkflowRuns the key shows all runs,
\* clears currentWorkflow, sets loading and issues an all-runs load; from
\* AllRuns and Logs it leaves viewState, currentWorkflow and loading as they
\* are and issues nothing.
C19_SwitchToAllRunsFromWorkflows ==
    [][KeyA =>
          IF viewState \in {WorkflowListView, WorkflowRunsView}
          THEN /\ viewState' = AllRunsView /\ currentWorkflow' = Nil /\ loading'
               /\ cmds' = cmds (+) SetToBag({Cmd("allRuns", 0)})
          ELSE UNCHANGED <<viewState, currentWorkflow, loading, cmds>>]_vars

\* C19 witness: all runs are shown again and loading, the workflow context
\* of the runs loaded earlier is gone.
C19_Witness ==
    /\ viewState = AllRunsView /\ loading /\ currentWorkflow = Nil
    /\ Len(workflowRuns) > 0 /\ BagIn(Cmd("allRuns", 0), cmds)

\* C20: back goes WorkflowRuns -> WorkflowList -> AllRuns, Logs -> WorkflowRuns
\* with a workflow context and Logs -> AllRuns without, does nothing in
\* AllRuns, and never issues a command or touches loading, the error, the
\* data, the pagination or the cache.
BackStep == (KeyBack /\ ~InLogs) \/ (KeyLeft /\ InLogs)
C20_BackMap ==
    [][BackStep =>
          /\ viewState' =
                CASE viewState = WorkflowRunsView -> WorkflowListView
                  [] viewState = WorkflowListView -> AllRunsView
                  [] viewState = WorkflowRunLogsView /\ currentWorkflow # Nil -> WorkflowRunsView
                  [] viewState = WorkflowRunLogsView /\ currentWorkflow = Nil -> AllRunsView
                  [] viewState = AllRunsView -> AllRunsView
          /\ UNCHANGED <<loading, err, dataVars, currentJobs, logVars, pageVars, jobsCache,
                         cmds, msgs>>]_vars

\* C20 witness: back has led from the workflows to all runs: the workflow
\* context is still there.
C20_Witness ==
    viewState = AllRunsView /\ currentWorkflow # Nil

\* A key press outside quit, whatever the mode.
KeyStep ==
    \/ \E k \in NavKeys : KeyNav(k)
    \/ KeyEnter \/ KeyBack \/ KeyLeft \/ KeyRefresh \/ KeyW \/ KeyA
    \/ KeyNextPage \/ KeyPrevPage
    \/ KeyViewFile \/ FileClose
    \/ \E k \in NavKeys \cup ViewKeys : FileKey(k)
    \/ SearchStart \/ SearchBackspace \/ SearchConfirm \/ SearchCancel
    \/ \E r \in Runes : SearchRune(r)
    \/ KeyNextMatch \/ KeyPrevMatch
    \/ JumpStart \/ JumpBackspace \/ JumpConfirm \/ JumpCancel
    \/ \E r \in Digits \cup OtherRunes : JumpRune(r)

\* The range of the file viewport as the claim words it.
FileOffsetRange ==
    0..Max(0, Len(Lines(workflowFileContent)) - Max(1, height - 4))

C22_ViewFileOpensAndCloses ==
    [][/\ (KeyViewFile /\ currentRun # Nil /\ PathOf(currentRun) # "") =>
             /\ viewingWorkflowFile' /\ workflowFileLoading'
             /\ cmds' = cmds (+) SetToBag({[kind |-> "file", arg |-> currentRun, req |-> 0,
                                            path |-> PathOf(currentRun)]})
             /\ viewState' = viewState
       /\ FileClose =>
             /\ ~viewingWorkflowFile' /\ viewState' = viewState
             /\ workflowFileContent' = EmptyLog /\ workflowFilePath' = ""
             /\ workflowFileOffset' = 0]_vars

\* C22 witness: the overlay was opened and closed again: the Logs view is
\* back, the buffer is empty and the load that the opening issued is under way.
C22_Witness ==
    /\ InLogs /\ ~viewingWorkflowFile /\ workflowFileLoading
    /\ workflowFileContent = EmptyLog /\ workflowFilePath = "" /\ workflowFileOffset = 0
    /\ \E c \in BagToSet(cmds) : c.kind = "file" /\ c.path = PathOf(currentRun)

\* C23: a step adds a network call of the debounce path for run R only as the
\* callback of a fired timer for R, with R = pendingRunID and no fresh cache
\* entry for R at that moment; a cursor move onto a run with a fresh cache
\* entry shows the cached jobs at once, starts no network call and arms no
\* timer.
Fresh(runID) == jobsCache[runID].ts >= 0 /\ now - jobsCache[runID].ts <= CacheTTL
C23_FetchOnlyWhenPendingAndStale ==
    [][/\ \A f \in BagToSet(fetches') :
             CopiesIn(f, fetches') > CopiesIn(f, fetches) =>
                /\ \E t \in timers : t.st = "fired" /\ t.run = f.run /\ ExecuteJobsLoad(t)
                /\ f.run = pendingRunID
                /\ ~Fresh(f.run)
       /\ \A k \in NavKeys :
             (KeyNav(k) /\ SelectedRun' # SelectedRun /\ SelectedRun' # Nil /\ Fresh(SelectedRun')) =>
                /\ currentJobs' = jobsCache[SelectedRun'].jobs
                /\ fetches' = fetches
                /\ timers' = timers]_vars

\* C23 witness: the network call for the selected run is under way; it is the
\* pending run and the cache holds nothing fresh for it.
C23_Witness ==
    \E f \in BagToSet(fetches) :
        f.run = pendingRunID /\ f.run = SelectedRun /\ ~Fresh(f.run)

\* C24: in every state at most one debounce timer is armed.
Armed == {t \in timers : t.st = "armed"}
C24_OneTimerArmed == Cardinality(Armed) <= 1

\* C24 witness: a timer was scheduled while the callback of an earlier one
\* had not run yet: one armed, one fired.
C24_Witness ==
    /\ Cardinality(Armed) = 1
    /\ \E t \in timers : t.st = "fired"
    /\ \A t \in Armed : t.id = debounceTimer

\* C25: a sweep removes exactly the entries older than the TTL and leaves
\* every other entry as it is, so that no Get, now or later, answers
\* differently for the sweep.
C25_CleanupInvisible ==
    [][Cleanup =>
          /\ \A r \in RunIDs :
                jobsCache'[r] = IF jobsCache[r].ts >= 0 /\ now - jobsCache[r].ts > CacheTTL
                                THEN NoEntry ELSE jobsCache[r]
          /\ \A r \in RunIDs : \A t \in now..MaxTime :
                CacheGet(jobsCache', r, t) = CacheGet(jobsCache, r, t)]_vars

\* C25 witness: a sweep has removed an entry older than the TTL while a
\* younger entry is still in the cache.
C25_Witness ==
    \E r, q \in RunIDs :
        /\ lastSet[r].ts >= 0 /\ jobsCache[r] = NoEntry
        /\ jobsCache[q].ts >= 0 /\ now - jobsCache[q].ts <= CacheTTL

\* C26: a loaded event puts its payload in the place of the state it loads
\* (workflows with total and page, runs of a workflow, all runs with total
\* and page, jobs, log text); runs-loaded and all-runs-loaded issue one jobs
\* load for the first run of a non-empty payload and nothing for an empty one;
\* the other loaded events issue nothing.
JobsLoadFor(items) ==
    IF Len(items) > 0 THEN cmds (+) SetToBag({Cmd("jobs", items[1])}) ELSE cmds
C26_LoadedReplaces ==
    [][\A m \in BagToSet(msgs) :
          /\ OnWorkflowsPaginatedLoaded(m) =>
                /\ workflows' = m.items /\ workflowsTotal' = m.total /\ workflowsPage' = m.page
                /\ cmds' = cmds
          /\ OnWorkflowRunsLoaded(m) =>
                workflowRuns' = m.items /\ cmds' = JobsLoadFor(m.items)
          /\ OnAllRunsPaginatedLoaded(m) =>
                /\ allRuns' = m.items /\ allRunsTotal' = m.total /\ allRunsPage' = m.page
                /\ cmds' = JobsLoadFor(m.items)
          /\ OnJobsLoaded(m) => currentJobs' = m.jobs /\ cmds' = cmds
          /\ OnLogsLoaded(m) => logs' = m.logs /\ cmds' = cmds]_vars

\* C26 witness: the runs of a workflow are loaded and the jobs load for the
\* first of them is issued.
C26_Witness ==
    /\ viewState = WorkflowRunsView /\ ~loading /\ Len(workflowRuns) > 0
    /\ BagIn(Cmd("jobs", workflowRuns[1]), cmds)

\* C27: an error event sets the error and clears loading; viewState, the
\* data, the list selection, the pagination, the search and jump state and
\* the jobs cache stay as they are.
C27_ErrorFrame ==
    [][\A m \in BagToSet(msgs) :
          OnErrorMsg(m) =>
             /\ err' = m.err /\ ~loading'
             /\ UNCHANGED <<viewState, workflows, workflowRuns, allRuns, currentJobs, logs,
                            idxVars, pageVars, searchVars, jumpVars, jobsCache>>]_vars

\* C27 witness: the logs load of an opened run has failed; the runs loaded
\* before are still there.
C27_Witness ==
    /\ InLogs /\ err # NoErr /\ ~loading /\ Len(allRuns) > 0 /\ logs = EmptyLog

\* C28: every fetch makes one collaborator call and hands one completion
\* event to the event loop, the error event when the call has failed.
FetchEnds ==
    \/ \E c \in BagToSet(cmds) : CmdStart(c) /\ ~BagIn([c EXCEPT !.req = 1], cmds')
                                             /\ c.kind = "jobs"
    \/ \E c \in BagToSet(cmds) : CmdDone(c)
    \/ \E c \in BagToSet(cmds) : \E e \in Errors : CmdFail(c, e)
    \/ \E f \in BagToSet(fetches) : JobsFetchDone(f)
    \/ \E f \in BagToSet(fetches) : JobsFetchFail(f)
CallFails ==
    \/ \E c \in BagToSet(cmds) : \E e \in Errors : CmdFail(c, e)
    \/ \E f \in BagToSet(fetches) : JobsFetchFail(f)
C28_OneCallOneEvent ==
    [][/\ FetchEnds => BagCardinality(msgs') = BagCardinality(msgs) + 1
       /\ CallFails => \E m \in BagToSet(msgs') :
                          m.kind = "errorMsg" /\ CopiesIn(m, msgs') > CopiesIn(m, msgs)
       /\ \A c \in BagToSet(cmds) :
             (c.kind = "jobs" /\ CmdStart(c)) => BagIn([c EXCEPT !.req = 1], cmds')]_vars

\* C29: both pages are at least 1 in every state; next-page increments the
\* page of the list shown, sets loading and issues its load when
\* page * perPage < total and changes nothing otherwise; previous-page
\* decrements, sets loading and issues the load when page > 1 and changes
\* nothing otherwise; in the WorkflowRuns view both change nothing.
PageStep(delta, can) ==
    CASE viewState = WorkflowListView ->
            IF can[1]
            THEN /\ workflowsPage' = workflowsPage + delta /\ loading'
                 /\ cmds' = cmds (+) SetToBag({Cmd("workflows", 0)})
                 /\ UNCHANGED <<viewState, allRunsPage>>
            ELSE UNCHANGED vars
      [] viewState = AllRunsView ->
            IF can[2]
            THEN /\ allRunsPage' = allRunsPage + delta /\ loading'
                 /\ cmds' = cmds (+) SetToBag({Cmd("allRuns", 0)})
                 /\ UNCHANGED <<viewState, workflowsPage>>
            ELSE UNCHANGED vars
      [] viewState = WorkflowRunsView -> UNCHANGED vars
      [] OTHER -> TRUE
C29_Pagination ==
    [][/\ workflowsPage' >= 1 /\ allRunsPage' >= 1
       /\ KeyNextPage => PageStep(1, <<workflowsPage * PerPage < workflowsTotal,
                                       allRunsPage * PerPage < allRunsTotal>>)
       /\ KeyPrevPage => PageStep(-1, <<workflowsPage > 1, allRunsPage > 1>>)]_vars

\* C29 witness: the second page of all runs was asked for and its load is
\* under way; there is no third page.
C29_Witness ==
    /\ viewState = AllRunsView /\ allRunsPage = 2 /\ loading
    /\ allRunsPage * PerPage >= allRunsTotal
    /\ BagIn(Cmd("allRuns", 0), cmds)

\* C30: whenever View draws the current view, the list and the preview panel
\* of that view have the sizes the layout gives for the terminal's width and
\* height and the view, whatever resizes and view switches came before.
DrawsView ==
    /\ width # 0 /\ height # 0
    /\ err = NoErr /\ ~viewingWorkflowFile /\ ~loading
C30_GeometryIsCurrent ==
    DrawsView =>
        CASE viewState = AllRunsView ->
                /\ allRunsListSize = ListSize(viewState, width, height)
                /\ previewSize = PreviewSize(viewState, width, height)
          [] viewState = WorkflowRunsView ->
                /\ runsListSize = ListSize(viewState, width, height)
                /\ previewSize = PreviewSize(viewState, width, height)
          [] viewState = WorkflowListView ->
                /\ workflowListSize = ListSize(viewState, width, height)
                /\ previewSize = PreviewSize(viewState, width, height)
          [] OTHER -> TRUE

\* An SGR sequence ESC [ <params> m lies on runes a..b of the line.
IsSgr(line, a, b) ==
    /\ a + 2 <= b /\ b <= Len(line)
    /\ line[a] = Esc /\ line[a + 1] = "[" /\ line[b] = "m"
    /\ \A k \in (a + 2)..(b - 1) : line[k] \in ParamRunes
SgrFrom(line, a) == \E b \in a..Len(line) : IsSgr(line, a, b)
SgrEnd(line, a) == CHOOSE b \in a..Len(line) : IsSgr(line, a, b)

\* The line with all SGR sequences removed, from rune i on.
RECURSIVE StripSgr(_, _)
StripSgr(line, i) ==
    IF i > Len(line) THEN <<>>
    ELSE IF SgrFrom(line, i) THEN StripSgr(line, SgrEnd(line, i) + 1)
    ELSE <<line[i]>> \o StripSgr(line, i + 1)

\* The accumulator after one code, and after the parameter list of a sequence:
\* the empty list resets as code 0 does.
SgrCode(style, code) ==
    IF code = <<"0">> THEN BaseStyle
    ELSE IF code \in ForegroundCodes THEN [style EXCEPT !.fg = Color(code)]
    ELSE [style EXCEPT !.bold = @ \/ code = <<"1">>, !.faint = @ \/ code = <<"2">>,
                       !.italic = @ \/ code = <<"3">>, !.underline = @ \/ code = <<"4">>]
RECURSIVE SgrCodes(_, _)
SgrCodes(style, codes) ==
    IF Len(codes) = 0 THEN style
    ELSE SgrCodes(SgrCode(style, Head(codes)), Tail(codes))
SgrParams(style, params) ==
    IF params = <<>> THEN BaseStyle ELSE SgrCodes(style, SplitCodes(params))

\* The segments of the line from rune i on: each stretch of text between
\* sequences, in order, in the style accumulated up to it.
RECURSIVE SgrSegments(_, _, _)
SgrSegments(line, i, style) ==
    IF i > Len(line) THEN <<>>
    ELSE IF SgrFrom(line, i)
         THEN SgrSegments(line, SgrEnd(line, i) + 1,
                          SgrParams(style, SubSeq(line, i + 2, SgrEnd(line, i) - 1)))
         ELSE LET e == CHOOSE j \in i..Len(line) :
                          /\ \A k \in i..j : ~SgrFrom(line, k)
                          /\ j = Len(line) \/ SgrFrom(line, j + 1)
              IN <<Render(style, SubSeq(line, i, e))>> \o SgrSegments(line, e + 1, style)

RECURSIVE SegmentText(_)
SegmentText(segs) == IF Len(segs) = 0 THEN <<>> ELSE Head(segs).text \o SegmentText(Tail(segs))
HasEsc(line) == \E i \in 1..Len(line) : line[i] = Esc

\* C31: processLine emits the text between the SGR sequences of a line, in
\* order, each stretch in the style accumulated up to it (0 or an empty
\* parameter list resets, 1/2/3/4 add bold/faint/italic/underline, 30-37 and
\* 90-97 set the foreground, every other code changes nothing); the texts
\* joined are the line without its SGR sequences; a line without an escape
\* rune comes back unchanged.
C31_SgrDecoding ==
    [][ProcessLineStep =>
          /\ IF HasEsc(ansiLine)
             THEN ansiOut' = SgrSegments(ansiLine, 1, BaseStyle)
             ELSE ansiOut' = <<Unrendered(ansiLine)>>
          /\ SegmentText(ansiOut') = StripSgr(ansiLine, 1)]_vars

\* The key press of a printable character: q is the quit key, f the
\* view-file key, the other runes reach the input of the Logs view.
PressRune(c) ==
    CASE c = "q" -> KeyQuit
      [] c = "f" -> KeyViewFile
      [] OTHER -> SearchRune(c)

\* C32: in the search input the press of a printable character appends that
\* character to the search buffer and changes nothing else: viewState, the
\* overlay and the viewport stay and no command, quit least of all, is issued.
C32_SearchInputTakesRunes ==
    [][\A c \in Runes \cup {"f", "q"} :
          (InLogs /\ searchInputMode /\ ~viewingWorkflowFile /\ PressRune(c)) =>
             /\ searchInputBuffer' = Append(searchInputBuffer, c)
             /\ UNCHANGED <<uiVars, dataVars, currentJobs, logVars, height, geomVars, extVars,
                            searchInputMode, searchActiveQuery, searchMatchIndices,
                            searchMatchIndex, jumpVars, fileVars, pageVars, idxVars,
                            jobsCache, lastSet, debVars, fetches, cmds, msgs, now>>]_vars

\* C33: in every state each index of matchIndices is a line index of the
\* log text held and that line holds the active query without regard to
\* case, also after the logs of another run were opened and after a
\* logs-loaded event has replaced the text.
C33_SearchRefersToLog ==
    \A k \in 1..Len(searchMatchIndices) :
        /\ searchMatchIndices[k] \in 0..(Len(Lines(logs)) - 1)
        /\ HoldsQuery(Lines(logs)[searchMatchIndices[k] + 1], searchActiveQuery)

\* C34: a dismissed overlay stays closed until view-file is pressed again: a
\* workflow-file-loaded event that arrives while the overlay is closed, in
\* whichever view, neither opens it nor fills the file buffer.
C34_ClosedStaysClosed ==
    [][\A m \in BagToSet(msgs) :
          (OnWorkflowFileLoaded(m) /\ ~viewingWorkflowFile) =>
             /\ ~viewingWorkflowFile'
             /\ UNCHANGED <<workflowFileContent, workflowFilePath>>]_vars

\* Where back leads from the Logs view: goBack decides by currentWorkflow,
\* which no step taken in the Logs view changes.
BackFromLogs(w) == IF w # Nil THEN WorkflowRunsView ELSE AllRunsView

\* C35: back from the Logs view returns to the view the Logs view was entered
\* from, AllRuns or WorkflowRuns, whatever the navigation before; that is,
\* no workflow context is set while viewState is AllRuns.
C35_BackReturnsToOrigin ==
    [][/\ (KeyEnter /\ ~InLogs /\ viewState' = WorkflowRunLogsView) =>
             BackFromLogs(currentWorkflow') = viewState
       /\ viewState' = AllRunsView => currentWorkflow' = Nil]_vars

\* C36: the log text of the Logs view is the log of currentRun: a
\* logs-loaded event that reaches the Logs view carries the logs of the run
\* shown, never those of a run opened before it, in whatever order the
\* fetches complete.
C36_LogsOfCurrentRun ==
    [][\A m \in BagToSet(msgs) :
          (OnLogsLoaded(m) /\ InLogs) => m.run = currentRun]_vars

\* A load of a list is under way: its command runs or its event, the error
\* event included, waits for the event loop.
ListLoadInFlight ==
    \/ \E c \in BagToSet(cmds) : c.kind \in {"allRuns", "workflows"}
    \/ \E m \in BagToSet(msgs) :
          m.kind \in {"allRunsPaginatedLoadedMsg", "workflowsPaginatedLoadedMsg", "errorMsg"}

\* C37: whenever no list load is in flight, the page held for a list is the
\* page its contents were fetched from, also after a failed page load and
\* after overlapping refresh, next-page and previous-page requests.
C37_PageIsPageOfContents ==
    ~ListLoadInFlight =>
        /\ allRunsFrom # 0 => allRunsPage = allRunsFrom
        /\ workflowsFrom # 0 => workflowsPage = workflowsFrom

\* C38: in every reachable state the WorkflowRuns view has its workflow and
\* the Logs view has its run.
C38_ViewHasItsContext ==
    /\ viewState = WorkflowRunsView => currentWorkflow # Nil
    /\ viewState = WorkflowRunLogsView => currentRun # Nil

\* The Logs view was opened from the all-runs list, left by back and opened
\* again from the runs of a workflow: both contexts are set.
C38_Witness ==
    /\ viewState = WorkflowRunLogsView
    /\ currentWorkflow # Nil
    /\ currentRun # Nil
    /\ ~loading
    /\ logs # EmptyLog

\* C39: at any time at most one watch tick is pending.
C39_AtMostOneTick == pendingTicks <= 1

\* C39, its second half: with watch mode off a delivered tick issues no
\* refresh and schedules no further tick.
C39_TickWhenOff ==
    [][(~watchMode /\ pendingTicks' < pendingTicks) =>
          /\ cmds' = cmds
          /\ pendingTicks' = pendingTicks - 1
          /\ ~watchMode']_vars

\* C40: whenever loading is set a load command is in flight, as a command
\* or as the message it answered with; and loading is cleared in the end.
LoadMsgKinds == {"allRunsPaginatedLoadedMsg", "workflowsPaginatedLoadedMsg",
                 "workflowRunsLoadedMsg", "logsLoadedMsg"}
LoadPending ==
    \/ \E c \in BagToSet(cmds) : c.kind \in LoadKinds
    \/ \E m \in BagToSet(msgs) : m.kind \in LoadMsgKinds \/ (m.kind = "errorMsg" /\ m.load)
C40_LoadingHasLoad == loading => LoadPending

\* C40 in full: the state property in every state, and every loading state is
\* followed by a state with loading cleared.
C40_LoadingEnds ==
    /\ [](loading => LoadPending)
    /\ loading ~> ~loading

\* The load of a refresh has failed after the list was loaded once: no load
\* command is left, its errorMsg is on the way and loading is still set.
C40_Witness ==
    /\ loading
    /\ allRunsTotal > 0
    /\ \A c \in BagToSet(cmds) : c.kind \notin LoadKinds
    /\ \E m \in BagToSet(msgs) : m.kind = "errorMsg" /\ m.load

====
